---- MODULE Spec2Model ----
(***************************************************************************)
(* Model of the hmdl request-context propagation and span decoration.      *)
(*                                                                         *)
(*   src/src/hmdl/context.py     ambient context, mcp_context scopes       *)
(*   src/src/hmdl/decorators.py  span decorators, identity resolution      *)
(*   src/src/hmdl/client.py      HeimdallClient singleton                  *)
(*                                                                         *)
(* An execution branch is a thread or an asyncio task: each has its own    *)
(* contextvars.Context, hence its own value of _mcp_context.               *)
(***************************************************************************)
EXTENDS Integers, Sequences, FiniteSets, TLC

\* Bounds of the model.
NumBranches == 2
MaxOpen == 2

Branches == 1..NumBranches
\* One mcp_context object per open with-block is all a run can use.
Managers == 1..MaxOpen

None == "None"

\* ------------------------------------------------------------------------
\* Values of the context variable.  tag "missing": the variable has no value
\* in the branch's Context (get() yields the default None); tag "none": it
\* was set to None; tag "ctx": an MCPRequestContext.
AmbMissing == [tag |-> "missing", session_id |-> None, user_id |-> None]
AmbNone == [tag |-> "none", session_id |-> None, user_id |-> None]
MCPRequestContext(s, u) == [tag |-> "ctx", session_id |-> s, user_id |-> u]

\* The request contexts the model builds scopes from: both ids, one id, no id.
Ctxs ==
  { MCPRequestContext("s1", "u1"), MCPRequestContext("s2", "u2") }

\* What mcp_context(...)._ctx and set_mcp_context's argument may be.
OptCtxs == Ctxs \cup {AmbNone}

\* A contextvars.Token (old value, used flag, the Context it was made in);
\* set = FALSE stands for mcp_context._token = None.
NoToken == [set |-> FALSE, old |-> AmbMissing, used |-> FALSE, home |-> 1]
Token(old, b) == [set |-> TRUE, old |-> old, used |-> FALSE, home |-> b]

NewManager == [made |-> FALSE, ctx |-> AmbNone, token |-> NoToken]

\* objects: the number of HeimdallClient objects built since the last reset;
\* initialized: those whose _initialized is set; setups: the number of
\* _setup_tracing runs since the last reset.
\* HeimdallClient._instance is None.  obj: the instance object (0: None);
\* enabled: config.enabled, that is, whether _setup_tracing ran; session_id,
\* user_id: the client-level store.  History: made lists the objects the
\* constructions since the last reset returned, set_session / set_user are
\* the values last given to the store.
\* HeimdallConfig(...): the API key and the batch, flush and queue settings
\* (the enabled flag is kept beside it).
HeimdallConfig(k, bs, fl, q) ==
  [api_key |-> k, batch_size |-> bs, flush_interval_ms |-> fl,
   max_queue_size |-> q]
\* The configuration built from an empty environment.
DefaultConfig == HeimdallConfig(None, 100, 5000, 1000)

NoClient ==
  [inst |-> FALSE, obj |-> 0, made |-> <<>>, enabled |-> FALSE,
   session_id |-> None, user_id |-> None,
   set_session |-> None, set_user |-> None, config |-> DefaultConfig,
   objects |-> 0, initialized |-> {}, setups |-> 0]

VARIABLES
  alive,   \* the branches created so far
  cur,     \* cur[b]: value of _mcp_context in branch b's Context
  mgr,     \* mgr[m]: the mcp_context object m (its _ctx and _token)
  stack,   \* stack[b]: the open with-blocks and wrapper calls of branch b
  client   \* the HeimdallClient singleton (HeimdallClient._instance)

vars == <<alive, cur, mgr, stack, client>>

\* ------------------------------------------------------------------------
Top(b) == stack[b][Len(stack[b])]

\* Branch b is running user code: at top level, inside a with-block or
\* inside the target of a wrapper.
CanAct(b) ==
  /\ b \in alive
  /\ IF stack[b] = <<>> THEN TRUE
     ELSE Top(b).pc = (IF Top(b).kind = "scope" THEN "in" ELSE "target")

\* get_mcp_context(): _mcp_context.get(), default None.
AmbientOf(v) == IF v.tag = "missing" THEN AmbNone ELSE v
get_mcp_context(b) == AmbientOf(cur[b])

\* A module-level global in place of the context variable.
ContextVarSetGlobal(b, v) == [c \in Branches |-> v]

\* _mcp_context.set(v) in branch b: the new value of the variable per branch.
ContextVarSet(b, v) == [cur EXCEPT ![b] = v]

\* _mcp_context.reset(tok) in branch b: the error it raises, if any.
ResetError(tok, b) ==
  IF tok.used THEN "RuntimeError"
  ELSE IF tok.home # b THEN "ValueError"
  ELSE "none"

\* An exit that clears the variable in place of restoring it.
ContextVarResetToNone(b, tok) == [cur EXCEPT ![b] = AmbNone]

\* _mcp_context.reset(tok) in branch b, when it raises nothing.
ContextVarReset(b, tok) == [cur EXCEPT ![b] = tok.old]

\* A with-block on manager m.  before: the ambient context when it was
\* entered; inner: a with-block nested in it has been left already.
ScopeFrame(m, before) ==
  [kind |-> "scope", pc |-> "in", mgr |-> m, before |-> before,
   own |-> TRUE, err |-> "none", inner |-> FALSE]

\* The frames of s that entered manager m no longer hold its current token.
Disown(s, m) ==
  [i \in DOMAIN s |->
     IF s[i].kind = "scope" /\ s[i].mgr = m THEN [s[i] EXCEPT !.own = FALSE]
     ELSE s[i]]

\* The number of open with-blocks, over all branches.
RECURSIVE OpenUpTo(_)
OpenUpTo(n) ==
  IF n = 0 THEN 0
  ELSE Cardinality({i \in DOMAIN stack[n] : stack[n][i].kind = "scope"})
         + OpenUpTo(n - 1)
Open == OpenUpTo(NumBranches)

InUse(m) ==
  \E b \in Branches : \E i \in DOMAIN stack[b] :
    stack[b][i].kind = "scope" /\ stack[b][i].mgr = m

\* ------------------------------------------------------------------------
Init ==
  /\ alive = {1}
  /\ cur = [b \in Branches |-> AmbMissing]
  /\ mgr = [m \in Managers |-> NewManager]
  /\ stack = [b \in Branches |-> <<>>]
  /\ client = NoClient

\* A new branch: an asyncio task runs in a copy of its creator's Context
\* (inherit), a new thread starts with an empty one.
Spawn(p, b, inherit) ==
  /\ CanAct(p)
  /\ b \notin alive
  /\ alive' = alive \cup {b}
  /\ cur' = [cur EXCEPT ![b] = IF inherit THEN cur[p] ELSE AmbMissing]
  /\ UNCHANGED <<mgr, stack, client>>

\* mcp_context(headers=..., ctx=...): the new manager object holding c.
mcp_context_init(c) == [made |-> TRUE, ctx |-> c, token |-> NoToken]

\* mcp_context.__enter__ on manager object o in branch b: the object after.
mcp_context_enter(o, b) == [o EXCEPT !.token = Token(cur[b], b)]

\* Branch b enters a with-block on manager m, whose object before
\* __enter__ is o.
EnterBlock(b, m, o) ==
  /\ mgr' = [mgr EXCEPT ![m] = mcp_context_enter(o, b)]
  /\ cur' = ContextVarSet(b, o.ctx)
  /\ stack' = [c \in Branches |->
                 IF c = b
                 THEN Append(Disown(stack[c], m), ScopeFrame(m, get_mcp_context(b)))
                 ELSE Disown(stack[c], m)]
  /\ UNCHANGED <<alive, client>>

\* with mcp_context(...): a new manager object is built and entered.
Enter(b, m, c) ==
  /\ CanAct(b)
  /\ Open < MaxOpen
  /\ ~InUse(m)
  /\ \A k \in Managers : k < m => InUse(k)
  /\ EnterBlock(b, m, mcp_context_init(c))

\* with cm: on a manager object that is entered already, by this branch or
\* by another one.
ReEnter(b, m) ==
  /\ CanAct(b)
  /\ Open < MaxOpen
  /\ InUse(m)
  /\ EnterBlock(b, m, mgr[m])

\* mcp_context.__exit__, at the end of the innermost with-block of branch b.
Exit(b) ==
  /\ b \in alive
  /\ stack[b] # <<>>
  /\ Top(b).kind = "scope" /\ Top(b).pc = "in"
  /\ LET f == Top(b)
         tok == mgr[f.mgr].token
         e == IF tok.set THEN ResetError(tok, b) ELSE "none"
         ok == tok.set /\ e = "none"
     IN /\ cur' = IF ok THEN ContextVarReset(b, tok) ELSE cur
        /\ mgr' = IF ok THEN [mgr EXCEPT ![f.mgr].token.used = TRUE] ELSE mgr
        /\ stack' = [stack EXCEPT ![b][Len(stack[b])] =
                       [f EXCEPT !.pc = "exited", !.err = e]]
  /\ UNCHANGED <<alive, client>>

\* Control leaves a finished with-block or wrapper call.
Return(b) ==
  /\ b \in alive
  /\ stack[b] # <<>>
  /\ Top(b).pc \in {"exited", "done"}
  /\ LET rest == SubSeq(stack[b], 1, Len(stack[b]) - 1)
         n == Len(rest)
     IN stack' = [stack EXCEPT ![b] =
                    IF n > 0 /\ Top(b).kind = "scope" /\ rest[n].kind = "scope"
                    THEN [rest EXCEPT ![n].inner = TRUE]
                    ELSE rest]
  /\ mgr' = [m \in Managers |->
               IF \E c \in Branches : \E i \in DOMAIN stack'[c] :
                    stack'[c][i].kind = "scope" /\ stack'[c][i].mgr = m
               THEN mgr[m] ELSE NewManager]
  /\ UNCHANGED <<alive, cur, client>>

\* set_mcp_context(ctx)
SetCtx(b, c) ==
  /\ CanAct(b)
  /\ cur' = ContextVarSet(b, c)
  /\ UNCHANGED <<alive, mgr, stack, client>>

\* clear_mcp_context()
ClearCtx(b) ==
  /\ CanAct(b)
  /\ cur' = ContextVarSet(b, AmbNone)
  /\ UNCHANGED <<alive, mgr, stack, client>>

\* ------------------------------------------------------------------------
\* HeimdallClient (client.py) and its client-level session / user store.

\* The values the client-level store is given (environment or setter).
StoreSessionIds == {"s3"}
StoreUserIds == {"u3"}

MaxConstructs == 3

\* A __new__ that builds an object on every construction.
NewAlways(o) == o + 1

\* HeimdallClient.__new__ while _instance is o (0: None): the object it
\* returns, which is also the new _instance.
New(o) == IF o = 0 THEN 1 ELSE o

\* __init__ on a new object o: config.enabled = en and the store read from
\* HEIMDALL_SESSION_ID (s) and HEIMDALL_USER_ID (u).
InitClient(o, en, s, u) ==
  [inst |-> TRUE, obj |-> o, made |-> Append(client.made, o), enabled |-> en,
   session_id |-> s, user_id |-> u, set_session |-> s, set_user |-> u,
   config |-> DefaultConfig,
   objects |-> IF o > client.objects THEN o ELSE client.objects,
   initialized |-> client.initialized \cup {o},
   setups |-> IF en THEN client.setups + 1 ELSE client.setups]

\* HeimdallClient(...) while no instance exists: __new__, then __init__.
Construct(en, s, u) ==
  /\ ~client.inst
  /\ client' = InitClient(New(client.obj), en, s, u)
  /\ UNCHANGED <<alive, cur, mgr, stack>>

\* HeimdallClient(...) while an instance exists: __new__ returns it and
\* __init__ returns at once, _initialized being set.
ConstructAgain(en, s, u) ==
  /\ client.inst
  /\ Len(client.made) < MaxConstructs
  /\ LET o == New(client.obj)
     IN client' = IF o = client.obj
                  THEN [client EXCEPT !.made = Append(@, o)]
                  ELSE InitClient(o, en, s, u)
  /\ UNCHANGED <<alive, cur, mgr, stack>>

\* ------------------------------------------------------------------------
\* Configuration (config.py).

\* The settings the model builds configurations from, around the limits
\* validate() tests.
ApiKeys == {None, "key"}
BatchSizes == {0, 1, 2}
FlushIntervals == {99, 100, 101}
QueueSizes == {0, 1, 2}
Configs ==
  {HeimdallConfig(k, bs, fl, q) :
     k \in ApiKeys, bs \in BatchSizes, fl \in FlushIntervals, q \in QueueSizes}

\* A validate() that also requires an API key.
validateApiKey(cfg) ==
  IF cfg.api_key = None \/ cfg.batch_size < 1 \/ cfg.flush_interval_ms < 100
     \/ cfg.max_queue_size < cfg.batch_size
  THEN "ValueError" ELSE "none"

\* HeimdallConfig.validate(): the exception it raises ("none": it returns).
validate(cfg) ==
  IF cfg.batch_size < 1 THEN "ValueError"
  ELSE IF cfg.flush_interval_ms < 100 THEN "ValueError"
  ELSE IF cfg.max_queue_size < cfg.batch_size THEN "ValueError"
  ELSE "none"

\* The batch span processor of the tracing library, built by _setup_tracing
\* from the three settings, may refuse settings that validate() refuses.
MayRefuse(cfg, en) == en /\ validate(cfg) # "none"

\* HeimdallClient(config=cfg) while no initialized instance exists, with
\* cfg.enabled = en: __new__, then __init__ (lines 61-84), which stores the
\* configuration and sets up tracing when enabled.  refused: _setup_tracing
\* raises; _instance then stays set and _initialized unset.
ConstructWith(cfg, en, refused) ==
  /\ ~client.inst
  /\ refused => MayRefuse(cfg, en)
  /\ client' = IF refused
               THEN [client EXCEPT !.obj = New(client.obj), !.config = cfg]
               ELSE [InitClient(New(client.obj), en, None, None)
                       EXCEPT !.config = cfg]
  /\ UNCHANGED <<alive, cur, mgr, stack>>

\* ------------------------------------------------------------------------
\* HeimdallClient(...) step by step, as threads interleave in it (client.py
\* 38-84).  The frame of a construction: saw, what the test of line 40
\* found; self, the object __new__ returned; setup, whether this call ran
\* _setup_tracing; after, whether an initialized instance existed when the
\* call began.
ConstructFrame(en, cfg) ==
  [kind |-> "construct", pc |-> "new", en |-> en, config |-> cfg,
   saw |-> FALSE, self |-> 0, setup |-> FALSE, after |-> client.inst]

Constructing(b) ==
  /\ b \in alive
  /\ stack[b] # <<>>
  /\ Top(b).kind = "construct"

\* The constructions begun since the last reset.
Begun ==
  Len(client.made)
    + Cardinality({b \in Branches : Constructing(b) /\ Top(b).pc # "done"})

\* Thread b calls HeimdallClient(config=cfg) with cfg.enabled = en.
ConstructBegin(b, en, cfg) ==
  /\ b \in alive /\ stack[b] = <<>>
  /\ Begun < MaxConstructs
  /\ stack' = [stack EXCEPT ![b] = <<ConstructFrame(en, cfg)>>]
  /\ UNCHANGED <<alive, cur, mgr, client>>

\* if cls._instance is None:
NewCheck(b) ==
  /\ Constructing(b) /\ Top(b).pc = "new"
  /\ stack' = [stack EXCEPT ![b][1] =
                 [@ EXCEPT !.pc = "assign", !.saw = (client.obj = 0)]]
  /\ UNCHANGED <<alive, cur, mgr, client>>

\* cls._instance = super().__new__(cls), when the test found None
NewAssign(b) ==
  /\ Constructing(b) /\ Top(b).pc = "assign"
  /\ client' = IF Top(b).saw
               THEN [client EXCEPT !.obj = client.objects + 1,
                                   !.objects = client.objects + 1]
               ELSE client
  /\ stack' = [stack EXCEPT ![b][1] = [@ EXCEPT !.pc = "return"]]
  /\ UNCHANGED <<alive, cur, mgr>>

\* return cls._instance
NewReturn(b) ==
  /\ Constructing(b) /\ Top(b).pc = "return"
  /\ stack' = [stack EXCEPT ![b][1] = [@ EXCEPT !.self = client.obj, !.pc = "check"]]
  /\ UNCHANGED <<alive, cur, mgr, client>>

\* if self._initialized: return
InitCheck(b) ==
  /\ Constructing(b) /\ Top(b).pc = "check"
  /\ stack' = [stack EXCEPT ![b][1] =
                 [@ EXCEPT !.pc = IF Top(b).self \in client.initialized
                                  THEN "finish" ELSE "init"]]
  /\ UNCHANGED <<alive, cur, mgr, client>>

\* self.config = ...; if self.config.enabled: self._setup_tracing()
InitSetup(b) ==
  /\ Constructing(b) /\ Top(b).pc = "init"
  /\ client' = [client EXCEPT !.config = Top(b).config,
                              !.enabled = Top(b).en,
                              !.setups = IF Top(b).en THEN @ + 1 ELSE @]
  /\ stack' = [stack EXCEPT ![b][1] =
                 [@ EXCEPT !.pc = "mark", !.setup = Top(b).en]]
  /\ UNCHANGED <<alive, cur, mgr>>

\* self._initialized = True
InitMark(b) ==
  /\ Constructing(b) /\ Top(b).pc = "mark"
  /\ client' = [client EXCEPT !.initialized = @ \cup {Top(b).self},
                              !.inst = TRUE]
  /\ stack' = [stack EXCEPT ![b][1] = [@ EXCEPT !.pc = "finish"]]
  /\ UNCHANGED <<alive, cur, mgr>>

\* The caller receives the object.
ConstructEnd(b) ==
  /\ Constructing(b) /\ Top(b).pc = "finish"
  /\ client' = [client EXCEPT !.made = Append(@, Top(b).self)]
  /\ stack' = [stack EXCEPT ![b][1] = [@ EXCEPT !.pc = "done"]]
  /\ UNCHANGED <<alive, cur, mgr>>

\* HeimdallClient.get_instance() (0: None)
get_instance == client.obj

\* HeimdallClient.reset()
Reset ==
  /\ client.inst
  /\ client' = NoClient
  /\ UNCHANGED <<alive, cur, mgr, stack>>

\* A setter that ignores None.
SetSessionIdSticky(v) ==
  /\ client.inst
  /\ client' = [client EXCEPT !.session_id = IF v = None THEN @ ELSE v,
                              !.set_session = v]
  /\ UNCHANGED <<alive, cur, mgr, stack>>

\* client.set_session_id(v)
SetSessionId(v) ==
  /\ client.inst
  /\ client' = [client EXCEPT !.session_id = v, !.set_session = v]
  /\ UNCHANGED <<alive, cur, mgr, stack>>

\* client.set_user_id(v)
SetUserId(v) ==
  /\ client.inst
  /\ client' = [client EXCEPT !.user_id = v, !.set_user = v]
  /\ UNCHANGED <<alive, cur, mgr, stack>>

\* client.get_session_id() / client.get_user_id()
get_session_id == client.session_id
get_user_id == client.user_id

\* ------------------------------------------------------------------------
\* Values that cross the wrappers (decorators.py).

\* Call arguments and target results, by what _serialize_value does with
\* them: json.dumps succeeds; json.dumps raises TypeError and str() succeeds;
\* str() raises as well (an object whose __str__ raises).
Args == {"a_json", "a_bad"}
Results == {"r_json", "r_str", "r_bad"}

\* Exceptions a target raises: an ordinary one, one whose __str__ raises,
\* and a BaseException that is no Exception.
TargetErrors == {"ValueError", "UnprintableError", "KeyboardInterrupt"}
Cancelled == "CancelledError"

\* Raised by the wrapper's own bookkeeping: by str() / json.dumps of an
\* unprintable object, and by an extractor that raises a BaseException.
StrError == "StrError"
ExtractorExit == "ExtractorExit"

\* isinstance(e, Exception)
IsException(e) == e \in {"ValueError", "UnprintableError", StrError}

\* str(e) returns
StrOk(e) == e # "UnprintableError"

\* _serialize_value(v): "json" for json.dumps(v, default=str), "str" for the
\* str(v) fallback, "raise" when that raises too.
serialize_value(v) ==
  IF v \in {"a_json", "r_json"} THEN "json"
  ELSE IF v = "r_str" THEN "str"
  ELSE "raise"

NoOutcome == [kind |-> "none", val |-> None]
Returned(v) == [kind |-> "return", val |-> v]
Raised(e) == [kind |-> "raise", val |-> e]

\* What the wrapper has written on the span of a call; marks: every status
\* mark ("ok", "error") written so far, as attribute or as span status.
NoSpan ==
  [made |-> FALSE, recording |-> FALSE, ended |-> 0,
   session_id |-> None, user_id |-> None, args |-> "unset",
   result |-> "unset", status_attr |-> "unset", status |-> "UNSET",
   err_msg |-> None, err_type |-> None, exc |-> None, duration |-> FALSE,
   marks |-> {}]

\* tracer.start_as_current_span(...) entered; client.tracer is the no-op
\* tracer when tracing was not set up.
StartSpan == [NoSpan EXCEPT !.made = TRUE, !.recording = client.enabled]

\* A with-block that leaves its span open.
EndSpanNever(sp) == sp

\* The with-block of the span is left.
EndSpan(sp) == [sp EXCEPT !.ended = @ + 1]

\* finally: span.set_attribute(DURATION_MS, ...)
RecordDuration(sp) == [sp EXCEPT !.duration = TRUE]

\* What an extractor does when called.
ExtractorOutcomes == {"absent", "value", "empty", "none", "raises", "interrupt"}
ExtractedSession == "s9"
ExtractedUser == "u9"

\* An extractor whose errors are not caught.
ExtractorPartUnguarded(x, v) ==
  [val |-> IF x = "value" THEN v ELSE None,
   exc |-> IF x \in {"interrupt", "raises"} THEN ExtractorExit ELSE "none",
   calls |-> IF x = "absent" THEN 0 ELSE 1]

\* An extractor whose value is dropped.
ExtractorPartIgnored(x, v) ==
  [val |-> None,
   exc |-> IF x = "interrupt" THEN ExtractorExit ELSE "none",
   calls |-> IF x = "absent" THEN 0 ELSE 1]

\* The extractor try-block of _extract_session_id / _extract_user_id: val is
\* the value of its early return (None: fall through), exc the exception
\* that escapes "except Exception", calls the number of extractor calls.
ExtractorPart(x, v) ==
  [val |-> IF x = "value" THEN v ELSE None,
   exc |-> IF x = "interrupt" THEN ExtractorExit ELSE "none",
   calls |-> IF x = "absent" THEN 0 ELSE 1]

\* The MCP-context fallback of _extract_session_id / _extract_user_id.
ContextSession(b) ==
  LET ctx == get_mcp_context(b)
  IN IF ctx.tag = "ctx" /\ ctx.session_id # None THEN ctx.session_id ELSE None

ContextUser(b) ==
  LET ctx == get_mcp_context(b)
  IN IF ctx.tag = "ctx" /\ ctx.user_id # None THEN ctx.user_id ELSE None

\* _extract_session_id(args, kwargs, session_extractor) in branch b
extract_session_id(b, x) ==
  LET e == ExtractorPart(x, ExtractedSession)
  IN IF e.exc # "none" \/ e.val # None THEN e
     ELSE [e EXCEPT !.val = ContextSession(b)]

\* _extract_user_id(args, kwargs, user_extractor) in branch b
extract_user_id(b, x) ==
  LET e == ExtractorPart(x, ExtractedUser)
  IN IF e.exc # "none" \/ e.val # None THEN e
     ELSE [e EXCEPT !.val = ContextUser(b)]

\* The client-level store consulted before the ambient context.
ResolveSessionStoreFirst(b, x) ==
  LET e == ExtractorPart(x, ExtractedSession)
  IN IF e.exc # "none" \/ e.val # None THEN e
     ELSE IF get_session_id # None THEN [e EXCEPT !.val = get_session_id]
     ELSE [e EXCEPT !.val = ContextSession(b)]

\* session_id = _extract_session_id(...); if not session_id: session_id =
\* client.get_session_id()
ResolveSession(b, x) ==
  LET e == extract_session_id(b, x)
  IN IF e.exc = "none" /\ e.val = None THEN [e EXCEPT !.val = get_session_id]
     ELSE e

\* The client-level user id consulted before the ambient context.
ResolveUserStoreFirst(b, x) ==
  LET e == ExtractorPart(x, ExtractedUser)
  IN IF e.exc # "none" \/ e.val # None THEN e
     ELSE IF get_user_id # None THEN [e EXCEPT !.val = get_user_id]
     ELSE [e EXCEPT !.val = ContextUser(b)]

\* user_id = _extract_user_id(...); if not user_id: user_id =
\* client.get_user_id()
ResolveUser(b, x) ==
  LET e == extract_user_id(b, x)
  IN IF e.exc = "none" /\ e.val = None THEN [e EXCEPT !.val = get_user_id]
     ELSE e

\* ------------------------------------------------------------------------
\* The wrappers built by _create_span_decorator (trace_mcp_tool / _resource /
\* _prompt), by observe and by mcp_context.from_headers.

MaxCalls == 2

\* A synchronous wrapper whatever the target is.
SyncWrapperAlways(async) == FALSE

\* inspect.iscoroutinefunction(func): the wrapper built for the target is
\* the asynchronous one.
IsAsyncWrapper(async) == async

\* One invocation of a wrapper in branch b.  sx, ux: what the session / user
\* extractor of the decorator does on this call ("absent": none was
\* supplied); ci, co: capture_input, capture_output; passed: the arguments
\* the target received; tgt: what the target did; outcome: what the caller
\* of the wrapper gets.
\* client: what _get_client() returned to the wrapper; wasync: the wrapper
\* is asynchronous; headers, hcalls: what the headers_getter of a
\* from_headers wrapper returned and the number of its calls; cm: the
\* manager object of that wrapper and exits the number of its __exit__
\* calls; pre: the ambient context when the wrapper was called; getter: what
\* the headers_getter does on this call ("absent": the wrapper has none).
CallFrame(b, w, async, sx, ux, ci, co, a) ==
  [kind |-> "call", pc |-> "target", wrapper |-> w, async |-> async,
   wasync |-> IsAsyncWrapper(async), headers |-> None, hcalls |-> 0,
   getter |-> "absent",
   sx |-> sx, ux |-> ux, ci |-> ci, co |-> co, args |-> a,
   client |-> client, span |-> NoSpan, exCalls |-> 0, invoked |-> 0,
   passed |-> None, tgt |-> NoOutcome, outcome |-> NoOutcome,
   cm |-> NewManager, pre |-> get_mcp_context(b), exits |-> 0]

Calls(b) == Cardinality({i \in DOMAIN stack[b] : stack[b][i].kind = "call"})

\* A wrapper that calls its target a second time.
InvokeTwice(f) == [f EXCEPT !.pc = "target", !.invoked = @ + 2, !.passed = f.args]

\* func(*args, **kwargs) is invoked.
Invoke(f) == [f EXCEPT !.pc = "target", !.invoked = @ + 1, !.passed = f.args]

\* if client is None: return func(*args, **kwargs)
PassThrough(f) == Invoke(f)

\* try: span.set_attribute(args_attr, _serialize_value(_capture_arguments(
\* func, args, kwargs))) except Exception: pass
CaptureInput(sp, a) ==
  IF serialize_value(a) = "raise" THEN sp
  ELSE [sp EXCEPT !.args = serialize_value(a)]

\* An exception leaves the with-block of the span before the inner try.
EarlyExit(f, sp, e, calls) ==
  [f EXCEPT !.pc = "done", !.span = EndSpan(sp), !.exCalls = calls,
            !.outcome = Raised(e)]

\* A user id attribute without the placeholder.
UserAttributeOmitted(v) == v

\* span.set_attribute(HEIMDALL_USER_ID, user_id or "anonymous")
UserAttribute(v) == IF v # None THEN v ELSE "anonymous"

\* sync_wrapped / async_wrapped of _create_span_decorator with a client, up
\* to the invocation of the target (lines 183-215 / 128-160).
TraceBegin(b, f) ==
  LET s0 == StartSpan
      rs == ResolveSession(b, f.sx)
      s1 == IF rs.val # None THEN [s0 EXCEPT !.session_id = rs.val] ELSE s0
      ru == ResolveUser(b, f.ux)
      s2 == [s1 EXCEPT !.user_id = UserAttribute(ru.val)]
  IN IF rs.exc # "none" THEN EarlyExit(f, s0, rs.exc, rs.calls)
     ELSE IF ru.exc # "none" THEN EarlyExit(f, s1, ru.exc, rs.calls + ru.calls)
     ELSE Invoke([f EXCEPT !.span = CaptureInput(s2, f.args),
                           !.exCalls = rs.calls + ru.calls])

\* sync_wrapper / async_wrapper of observe with a client, up to the
\* invocation of the target (lines 401-417 / 365-381).
ObserveBegin(f) ==
  Invoke([f EXCEPT !.span = IF f.ci THEN CaptureInput(StartSpan, f.args)
                            ELSE StartSpan])

\* A wrapper without the client check.
WrapperBeginNoCheck(b, f) ==
  IF f.wrapper = "trace" THEN TraceBegin(b, f) ELSE ObserveBegin(f)

\* The wrapper is called: client = _get_client(), which is
\* HeimdallClient.get_instance(); if client is None the target is called
\* directly, else one of the above.
WrapperBegin(b, f) ==
  IF f.client.obj = 0 THEN PassThrough(f)
  ELSE IF f.wrapper = "trace" THEN TraceBegin(b, f)
  ELSE ObserveBegin(f)

\* _record_error(span, error): the span after it and the exception it
\* raises itself ("none": it returns).
record_error(sp, e) ==
  LET s1 == [sp EXCEPT !.status_attr = "error", !.marks = @ \cup {"error"}]
  IN IF ~StrOk(e) THEN [span |-> s1, exc |-> StrError]
     ELSE [span |-> [s1 EXCEPT !.err_msg = e, !.err_type = e,
                               !.status = "ERROR", !.exc = e],
           exc |-> "none"]

\* A wrapper that marks the span successful as soon as the target has
\* returned, before it serializes the result.
SpanTailOkFirst(f, t) ==
  LET capture == f.wrapper = "trace" \/ f.co
      ser == serialize_value(t.val)
      bodyExc == IF t.kind = "raise" THEN t.val
                 ELSE IF capture /\ ser = "raise" THEN StrError
                 ELSE "none"
      body == IF t.kind = "raise" THEN f.span
              ELSE [f.span EXCEPT
                      !.result = IF capture /\ bodyExc = "none" THEN ser ELSE @,
                      !.status_attr = IF f.wrapper = "trace" THEN "ok" ELSE @,
                      !.status = "OK",
                      !.marks = @ \cup {"ok"}]
      rec == IF bodyExc # "none" /\ IsException(bodyExc)
             THEN record_error(body, bodyExc)
             ELSE [span |-> body, exc |-> "none"]
      final == IF bodyExc = "none" THEN Returned(t.val)
               ELSE IF rec.exc # "none" THEN Raised(rec.exc)
               ELSE Raised(bodyExc)
  IN [f EXCEPT !.pc = "done", !.tgt = t, !.outcome = final,
               !.span = EndSpan(RecordDuration(rec.span))]

\* The rest of a wrapper that opened a span, once the target has done t
\* (lines 215-228): try / except Exception / finally, then the end of the
\* with-block of the span.
SpanTail(f, t) ==
  LET capture == f.wrapper = "trace" \/ f.co
      ser == serialize_value(t.val)
      bodyExc == IF t.kind = "raise" THEN t.val
                 ELSE IF capture /\ ser = "raise" THEN StrError
                 ELSE "none"
      body == IF bodyExc # "none" THEN f.span
              ELSE [f.span EXCEPT
                      !.result = IF capture THEN ser ELSE @,
                      !.status_attr = IF f.wrapper = "trace" THEN "ok" ELSE @,
                      !.status = "OK",
                      !.marks = @ \cup {"ok"}]
      rec == IF bodyExc # "none" /\ IsException(bodyExc)
             THEN record_error(body, bodyExc)
             ELSE [span |-> body, exc |-> "none"]
      final == IF bodyExc = "none" THEN Returned(t.val)
               ELSE IF rec.exc # "none" THEN Raised(rec.exc)
               ELSE Raised(bodyExc)
  IN [f EXCEPT !.pc = "done", !.tgt = t, !.outcome = final,
               !.span = EndSpan(RecordDuration(rec.span))]

\* ------------------------------------------------------------------------
\* JWT tokens (context.py 44-107).

\* The claims extract_user_id_from_token looks at, in reverse.
ClaimNamesReversed == <<"user", "uid", "userId", "user_id", "sub">>

\* for claim_name in ("sub", "user_id", "userId", "uid", "user")
ClaimNames == <<"sub", "user_id", "userId", "uid", "user">>
ClaimSet == {"sub", "user_id", "userId", "uid", "user"}

\* What a claim holds in a payload mapping: nothing, the empty string, a
\* value that is no string, a non-empty string.
ClaimValues == {"absent", "empty", "nonstring", "string"}
\* The non-empty string each claim holds when it holds one.
ClaimString ==
  [sub |-> "u1", user_id |-> "u2", userId |-> "u3", uid |-> "u4", user |-> "u5"]

\* What json.loads yields for the decoded payload.  "mapping": a dict with
\* the given claims; "string_claim" / "list_claim": a string / list that
\* contains one of the claim names; "string_other" / "list_other": one that
\* contains none; "invalid": the bytes are no JSON document.
JsonKinds ==
  {"mapping", "number", "null", "bool", "string_claim", "string_other",
   "list_claim", "list_other", "invalid"}
NoClaims == [c \in ClaimSet |-> "absent"]
Json(k, cl) == [kind |-> k, claims |-> cl]
JsonValues ==
  {Json("mapping", cl) : cl \in [ClaimSet -> ClaimValues]}
    \cup {Json(k, NoClaims) : k \in JsonKinds \ {"mapping"}}

\* return {}
EmptyClaims == Json("mapping", NoClaims)

\* One dot-separated segment of a token: its text as base64url and the JSON
\* its bytes hold.  "clean": base64url text; "stray": text with characters
\* outside the alphabet that urlsafe_b64decode discards, decoding the rest;
\* "undecodable": text on which urlsafe_b64decode raises binascii.Error.
Base64Forms == {"clean", "stray", "undecodable"}
Segment(form, j) == [b64 |-> form, json |-> j]
Segments == {Segment(form, j) : form \in Base64Forms, j \in JsonValues}
\* A header or signature segment, and the empty segment.
Opaque == Segment("clean", EmptyClaims)
EmptySegment == Segment("clean", Json("invalid", NoClaims))
SubSegment == Segment("clean", Json("mapping", [NoClaims EXCEPT !.sub = "string"]))

\* A token string: what precedes the first segment and the segments that
\* split(".") yields once that prefix is gone.
Prefixes == {"", "Bearer ", "bearer "}
JWT(p, parts) == [prefix |-> p, parts |-> parts]
EmptyToken == JWT("", <<EmptySegment>>)
JwtU1 == JWT("Bearer ", <<Opaque, SubSegment, Opaque>>)
NotJwt == JWT("Bearer ", <<Opaque>>)
WellFormed == {JWT(p, <<Opaque, s, Opaque>>) : p \in Prefixes, s \in Segments}
WrongCount ==
  {JWT(p, parts) : p \in Prefixes,
                   parts \in {<<EmptySegment>>, <<Opaque>>, <<Opaque, SubSegment>>,
                              <<Opaque, SubSegment, Opaque, Opaque>>}}
Tokens == WellFormed \cup WrongCount

\* token.lower()
Lower(p) == IF p \in {"Bearer ", "bearer "} THEN "bearer " ELSE p

\* if token.lower().startswith("bearer "): token = token[7:]
StripBearer(tok) ==
  IF Lower(tok.prefix) = "bearer " THEN [tok EXCEPT !.prefix = ""] ELSE tok

\* parse_jwt_claims(token): what it returns (it raises nothing, its body
\* being inside try ... except Exception: return {}).
parse_jwt_claims(tok) ==
  LET parts == StripBearer(tok).parts
  IN IF Len(parts) # 3 THEN EmptyClaims
     ELSE IF parts[2].b64 = "undecodable" THEN EmptyClaims
     ELSE IF parts[2].json.kind = "invalid" THEN EmptyClaims
     ELSE parts[2].json

\* The loop of extract_user_id_from_token over a mapping, from claim i on.
RECURSIVE FirstClaim(_, _)
FirstClaim(cl, i) ==
  IF i > Len(ClaimNames) THEN None
  ELSE IF cl[ClaimNames[i]] = "string" THEN ClaimString[ClaimNames[i]]
  ELSE FirstClaim(cl, i + 1)

\* claim_name in claims / claims[claim_name] on a value that is no mapping:
\* TypeError for a number, null, a boolean, and for a string or list that
\* contains a claim name; no claim is found in the other strings and lists.
NotSubscriptable == {"number", "null", "bool", "string_claim", "list_claim"}

\* extract_user_id_from_token(token): what it returns or raises.
extract_user_id_from_token(tok) ==
  LET claims == parse_jwt_claims(tok)
  IN IF claims.kind \in NotSubscriptable THEN Raised("TypeError")
     ELSE IF claims.kind = "mapping" THEN Returned(FirstClaim(claims.claims, 1))
     ELSE Returned(None)

\* ------------------------------------------------------------------------
\* HTTP headers (context.py 110-160).  A header mapping, by what
\* create_mcp_context reads from it: the session header (session: its value,
\* None when there is no such header; skey: the spelling of its name) and
\* the Authorization header.
MCP_SESSION_ID_HEADER == "Mcp-Session-Id"
SessionKeys == {"Mcp-Session-Id", "mcp-session-id", "MCP-SESSION-ID"}
NoAuth == [present |-> FALSE, value |-> EmptyToken]
Auth(tok) == [present |-> TRUE, value |-> tok]
Hdr(s, a) == [session |-> s, skey |-> MCP_SESSION_ID_HEADER, auth |-> a]

\* The headers of the requests the wrappers are called with.
Headers == {Hdr(s, a) : s \in {None, "s1"}, a \in {NoAuth, Auth(JwtU1), Auth(NotJwt)}}

\* k.lower() of a header name
LowerKey(k) == IF k \in SessionKeys THEN "mcp-session-id" ELSE k

\* a or b
PyOr(a, b) == IF a # None /\ a # "" THEN a ELSE b

\* headers.get(key) and normalized_headers.get(key) for the session header
HeaderGet(h, key) == IF h.session # None /\ h.skey = key THEN h.session ELSE None
NormalizedGet(h, key) ==
  IF h.session # None /\ LowerKey(h.skey) = key THEN h.session ELSE None

\* session_id = normalized.get(...) or normalized.get(...) or headers.get(...)
SessionIdOf(h) ==
  PyOr(NormalizedGet(h, LowerKey(MCP_SESSION_ID_HEADER)),
       PyOr(NormalizedGet(h, "mcp-session-id"),
            HeaderGet(h, MCP_SESSION_ID_HEADER)))

\* if auth_header:
HasAuth(h) == h.auth.present /\ h.auth.value # EmptyToken

\* token_claims of the context create_mcp_context builds
TokenClaims(h) == IF HasAuth(h) THEN parse_jwt_claims(h.auth.value) ELSE EmptyClaims

\* The exception create_mcp_context(headers) raises ("none": it returns).
CreateRaises(h) ==
  IF HasAuth(h) /\ extract_user_id_from_token(h.auth.value).kind = "raise"
  THEN extract_user_id_from_token(h.auth.value).val
  ELSE "none"

\* create_mcp_context(headers), when it returns
create_mcp_context(h) ==
  MCPRequestContext(SessionIdOf(h),
                    IF HasAuth(h) /\ CreateRaises(h) = "none"
                    THEN extract_user_id_from_token(h.auth.value).val
                    ELSE None)

\* An __exit__ that leaves the context variable as the target left it.
FromHeadersNoReset(b, f) ==
  [frame |-> [f EXCEPT !.exits = @ + 1], cur |-> cur, exc |-> "none"]

\* mcp_context.__exit__ of the manager object of from_headers frame f in
\* branch b: the frame after it, the value of the context variable after
\* it and the exception it raises.
FromHeadersExit(b, f) ==
  LET tok == f.cm.token
      e == IF tok.set THEN ResetError(tok, b) ELSE "none"
      ok == tok.set /\ e = "none"
  IN [frame |-> [f EXCEPT !.exits = @ + 1,
                          !.cm.token.used = IF ok THEN TRUE ELSE @],
      cur |-> IF ok THEN ContextVarReset(b, tok) ELSE cur,
      exc |-> e]

\* The wrapper after its target has done t.
WrapperEnd(b, f, t) ==
  IF f.wrapper = "from_headers"
  THEN LET x == FromHeadersExit(b, f)
       IN [x.frame EXCEPT !.pc = "done", !.tgt = t,
                          !.outcome = IF x.exc = "none" THEN t ELSE Raised(x.exc)]
  ELSE IF f.span.made THEN SpanTail(f, t)
  ELSE [f EXCEPT !.pc = "done", !.tgt = t, !.outcome = t]

\* The wrapper of frame f runs its target to completion inside its
\* with-blocks: it calls a synchronous target or awaits an asynchronous one.
Awaits(f) == f.wasync \/ ~f.async

\* A synchronous wrapper around an asynchronous target: func(...) only
\* builds the coroutine, the wrapper finishes around it at once and the
\* target runs afterwards.
Detached(b, f) ==
  [WrapperEnd(b, f, Returned("r_str")) EXCEPT
     !.pc = "target", !.tgt = NoOutcome, !.outcome = NoOutcome]

\* Frame f once its wrapper has reached the target.
Called(b, f) == IF f.pc = "done" \/ Awaits(f) THEN f ELSE Detached(b, f)

\* A headers_getter called once per process, not once per invocation.
StaleHeaders(h) == Hdr(None, NoAuth)

\* headers = headers_getter(), the supplier returning h at this call.
headers_getter(h) == h

InTarget(b) ==
  /\ b \in alive
  /\ stack[b] # <<>>
  /\ Top(b).kind = "call"
  /\ Top(b).pc = "target"

\* A function decorated with trace_mcp_tool / _resource / _prompt is called.
CallTrace(b, async, sx, ux, a) ==
  /\ CanAct(b)
  /\ Calls(b) < MaxCalls
  /\ stack' = [stack EXCEPT ![b] =
                 Append(@, Called(b, WrapperBegin(b,
                             CallFrame(b, "trace", async, sx, ux, TRUE, TRUE, a))))]
  /\ UNCHANGED <<alive, cur, mgr, client>>

\* A wrapper built by mcp_context.from_headers is called in branch b and its
\* headers_getter returns h: with mcp_context(headers=headers), up to the
\* invocation of the target (lines 263-265 / 270-272).
CallFromHeaders(b, async, h, a) ==
  /\ CanAct(b)
  /\ Calls(b) < MaxCalls
  /\ LET f == [CallFrame(b, "from_headers", async, "absent", "absent",
                         FALSE, FALSE, a) EXCEPT !.getter = "returns"]
         hs == headers_getter(h)
         o == mcp_context_init(create_mcp_context(hs))
         g == Invoke([f EXCEPT !.headers = h, !.hcalls = @ + 1,
                               !.cm = mcp_context_enter(o, b)])
         x == [f EXCEPT !.headers = h, !.hcalls = @ + 1, !.pc = "done",
                        !.outcome = Raised(CreateRaises(hs))]
     IN IF CreateRaises(hs) # "none"
        THEN /\ stack' = [stack EXCEPT ![b] = Append(@, x)]
             /\ cur' = cur
        ELSE /\ stack' = [stack EXCEPT ![b] = Append(@, Called(b, g))]
             /\ cur' = IF Awaits(g) THEN ContextVarSet(b, o.ctx) ELSE cur
  /\ UNCHANGED <<alive, mgr, client>>

\* The exception a headers_getter raises.
GetterError == "GetterError"

\* A wrapper that ignores a failing headers_getter and runs its target
\* without a scope.
GetterRaisedIgnored(f) == Invoke([f EXCEPT !.hcalls = @ + 1])

\* headers = headers_getter() raises: the wrapper is left at once, before
\* the with-statement (lines 263 / 270).
GetterRaised(f) ==
  [f EXCEPT !.hcalls = @ + 1, !.pc = "done", !.outcome = Raised(GetterError)]

\* A wrapper built by mcp_context.from_headers is called in branch b and its
\* headers_getter raises.
CallFromHeadersRaising(b, async, a) ==
  /\ CanAct(b)
  /\ Calls(b) < MaxCalls
  /\ stack' = [stack EXCEPT ![b] =
                 Append(@, GetterRaised(
                   [CallFrame(b, "from_headers", async, "absent", "absent",
                              FALSE, FALSE, a) EXCEPT !.getter = "raises"]))]
  /\ UNCHANGED <<alive, cur, mgr, client>>

\* ------------------------------------------------------------------------
\* Direct calls of the functions of context.py from top-level code of
\* branch b: the frame records the call and what it returned or raised.
FnFrame(fn, tok, h, out) ==
  [kind |-> "fn", pc |-> "done", fn |-> fn, token |-> tok, headers |-> h,
   out |-> out]

AtTopLevel(b) == b \in alive /\ stack[b] = <<>>

\* parse_jwt_claims(tok)
CallParse(b, tok) ==
  /\ AtTopLevel(b)
  /\ stack' = [stack EXCEPT ![b] =
                 <<FnFrame("parse_jwt_claims", tok, Hdr(None, NoAuth),
                           Returned(parse_jwt_claims(tok)))>>]
  /\ UNCHANGED <<alive, cur, mgr, client>>

\* extract_user_id_from_token(tok)
CallExtract(b, tok) ==
  /\ AtTopLevel(b)
  /\ stack' = [stack EXCEPT ![b] =
                 <<FnFrame("extract_user_id_from_token", tok, Hdr(None, NoAuth),
                           extract_user_id_from_token(tok))>>]
  /\ UNCHANGED <<alive, cur, mgr, client>>

\* create_mcp_context(h)
CallCreate(b, h) ==
  /\ AtTopLevel(b)
  /\ stack' = [stack EXCEPT ![b] =
                 <<FnFrame("create_mcp_context", EmptyToken, h,
                           IF CreateRaises(h) # "none" THEN Raised(CreateRaises(h))
                           ELSE Returned(create_mcp_context(h)))>>]
  /\ UNCHANGED <<alive, cur, mgr, client>>

\* with mcp_context(headers=h): __init__ calls create_mcp_context(headers);
\* when that raises there is no manager object and no with-block.
EnterHeaders(b, m, h) ==
  /\ AtTopLevel(b)
  /\ IF CreateRaises(h) # "none"
     THEN /\ stack' = [stack EXCEPT ![b] =
                         <<FnFrame("mcp_context", EmptyToken, h,
                                   Raised(CreateRaises(h)))>>]
          /\ UNCHANGED <<alive, cur, mgr, client>>
     ELSE Enter(b, m, create_mcp_context(h))

\* A function decorated with observe is called.
CallObserve(b, async, ci, co, a) ==
  /\ CanAct(b)
  /\ Calls(b) < MaxCalls
  /\ stack' = [stack EXCEPT ![b] =
                 Append(@, Called(b, WrapperBegin(b,
                             CallFrame(b, "observe", async, "absent", "absent",
                                       ci, co, a))))]
  /\ UNCHANGED <<alive, cur, mgr, client>>

\* The target of the innermost wrapper call of branch b has done t.
TargetDone(b, t) ==
  /\ InTarget(b)
  /\ stack' = [stack EXCEPT ![b][Len(stack[b])] = WrapperEnd(b, Top(b), t)]
  /\ cur' = IF Top(b).wrapper = "from_headers"
            THEN FromHeadersExit(b, Top(b)).cur
            ELSE cur
  /\ UNCHANGED <<alive, mgr, client>>

TargetReturn(b, r) == TargetDone(b, Returned(r))

TargetRaise(b, e) == TargetDone(b, Raised(e))

\* An asynchronous target is cancelled while suspended: CancelledError is
\* thrown into the wrapper at its await.
Cancel(b) ==
  /\ InTarget(b)
  /\ Top(b).async
  /\ TargetDone(b, Raised(Cancelled))

\* Ambient contexts that hold only one of the two identifiers.
PartialCtxs == {MCPRequestContext("s4", None), MCPRequestContext(None, "u4")}

\* No wrapper call is in progress on the main branch.
Idle == Calls(1) = 0

NextTrace ==
  \/ \E en \in BOOLEAN : \E s \in StoreSessionIds \cup {None} :
       \E u \in StoreUserIds \cup {None} : Idle /\ Construct(en, s, u)
  \/ Idle /\ Reset
  \/ \E s \in StoreSessionIds \cup {None} : Idle /\ SetSessionId(s)
  \/ \E u \in StoreUserIds \cup {None} : Idle /\ SetUserId(u)
  \/ \E m \in Managers : \E c \in Ctxs \cup PartialCtxs : Idle /\ Enter(1, m, c)
  \/ Idle /\ Exit(1)
  \/ Return(1)
  \/ \E async \in BOOLEAN : \E sx, ux \in ExtractorOutcomes : \E a \in Args :
       Idle /\ CallTrace(1, async, sx, ux, a)
  \/ \E async, ci, co \in BOOLEAN : \E a \in Args :
       Idle /\ CallObserve(1, async, ci, co, a)
  \/ \E r \in Results : TargetReturn(1, r)
  \/ \E e \in TargetErrors : TargetRaise(1, e)
  \/ Cancel(1)

\* Decorated calls made by the main branch, inside and outside scopes; the
\* client and the scopes change between the calls.
SpecTrace == Init /\ [][NextTrace]_vars

NextWrap ==
  \/ \E async \in BOOLEAN : \E h \in Headers : \E a \in Args :
       Idle /\ CallFromHeaders(1, async, h, a)
  \/ \E r \in Results : TargetReturn(1, r)
  \/ \E e \in TargetErrors : TargetRaise(1, e)
  \/ Cancel(1)
  \/ \E m \in Managers : \E c \in OptCtxs : Enter(1, m, c)
  \/ Exit(1)
  \/ Return(1)
  \/ \E c \in OptCtxs : SetCtx(1, c)
  \/ ClearCtx(1)

\* Handlers wrapped by mcp_context.from_headers, run by the main branch
\* inside and outside scopes; their targets open scopes and set or clear the
\* ambient context.
SpecWrap == Init /\ [][NextWrap]_vars

NextClient ==
  \/ \E en \in BOOLEAN : \E s \in StoreSessionIds \cup {None} :
       \E u \in StoreUserIds \cup {None} : Construct(en, s, u)
  \/ \E en \in BOOLEAN : \E s \in StoreSessionIds \cup {None} :
       \E u \in StoreUserIds \cup {None} : ConstructAgain(en, s, u)
  \/ Reset
  \/ \E s \in StoreSessionIds \cup {None} : SetSessionId(s)
  \/ \E u \in StoreUserIds \cup {None} : SetUserId(u)
  \/ \E a \in Args : Idle /\ CallTrace(1, FALSE, "absent", "absent", a)
  \/ \E r \in Results : TargetReturn(1, r)
  \/ Return(1)

\* Constructions and resets of the client and writers of its store, at any
\* moment of decorated calls that read the store.
SpecClient == Init /\ [][NextClient]_vars

NextNest ==
  \/ Construct(TRUE, None, None)
  \/ \E b \in Branches \ {1} : \E inherit \in BOOLEAN : Spawn(1, b, inherit)
  \/ \E async \in BOOLEAN : \E h \in Headers : CallFromHeaders(1, async, h, "a_json")
  \/ \E async \in BOOLEAN : CallTrace(1, async, "absent", "absent", "a_json")
  \/ TargetReturn(1, "r_json")
  \/ TargetRaise(1, "ValueError")
  \/ Cancel(1)
  \/ Return(1)
  \/ \E b \in Branches \ {1} : \E c \in OptCtxs : SetCtx(b, c)

\* A wrapped handler that calls decorated functions, run by the main
\* branch: calls nest, and an asynchronous target stays suspended while
\* another branch sets and clears its own ambient context.
SpecNest == Init /\ [][NextNest]_vars

\* HeimdallConfig(...): the dataclass constructor stores the fields; it has
\* no __post_init__ and calls nothing.
BuildConfig(cfg) ==
  /\ 1 \in alive /\ stack[1] = <<>>
  /\ stack' = [stack EXCEPT ![1] =
                 <<[kind |-> "fn", pc |-> "done", fn |-> "HeimdallConfig",
                    config |-> cfg, out |-> Returned(None)]>>]
  /\ UNCHANGED <<alive, cur, mgr, client>>

\* cfg.validate()
CallValidate(cfg) ==
  /\ 1 \in alive /\ stack[1] = <<>>
  /\ stack' = [stack EXCEPT ![1] =
                 <<[kind |-> "fn", pc |-> "done", fn |-> "validate",
                    config |-> cfg,
                    out |-> IF validate(cfg) = "none" THEN Returned(None)
                            ELSE Raised(validate(cfg))]>>]
  /\ UNCHANGED <<alive, cur, mgr, client>>

\* ------------------------------------------------------------------------
\* _capture_arguments (decorators.py 237-242).

\* The declared parameters of the target, search_tool(query, limit=10):
\* name and default ("required": none is declared).
Required == "required"
Signature ==
  <<[name |-> "query", default |-> Required],
    [name |-> "limit", default |-> "ten"]>>
ParamNames == {Signature[i].name : i \in DOMAIN Signature}

\* Argument values: one that serializes and one whose serialization raises.
ArgValues == {"test", "x_bad"}
\* The keywords a call may use; "extra" names no parameter.
KwNames == {"query", "limit", "extra"}
MaxPositional == 3
Positionals == UNION {[1..n -> ArgValues] : n \in 0..MaxPositional}
KwArgs == UNION {[D -> ArgValues] : D \in SUBSET KwNames}
\* The (args, kwargs) of a call.
CallArgs == [pos : Positionals, kw : KwArgs]

\* sig.bind_partial(*args, **kwargs) raises TypeError: too many positional
\* arguments, an unexpected keyword, or two values for one parameter.
BindFails(sig, call) ==
  \/ Len(call.pos) > Len(sig)
  \/ \E k \in DOMAIN call.kw : \A i \in DOMAIN sig : sig[i].name # k
  \/ \E i \in DOMAIN call.pos : i <= Len(sig) /\ sig[i].name \in DOMAIN call.kw

\* bound.arguments after bind_partial: positional arguments by position,
\* keyword arguments by name.
Bound(sig, call) ==
  [n \in {sig[i].name : i \in DOMAIN call.pos} \cup DOMAIN call.kw |->
     IF n \in DOMAIN call.kw THEN call.kw[n]
     ELSE call.pos[CHOOSE i \in DOMAIN call.pos : sig[i].name = n]]

\* A snapshot without bound.apply_defaults().
capture_arguments_bound_only(sig, call) ==
  IF BindFails(sig, call) THEN Raised("TypeError")
  ELSE Returned(Bound(sig, call))

\* bound.apply_defaults(): every parameter that is not bound and declares a
\* default gets it.
ApplyDefaults(sig, bound) ==
  [n \in DOMAIN bound
         \cup {sig[i].name : i \in {j \in DOMAIN sig : sig[j].default # Required}} |->
     IF n \in DOMAIN bound THEN bound[n]
     ELSE sig[CHOOSE i \in DOMAIN sig : sig[i].name = n].default]

\* _capture_arguments(func, args, kwargs): the dict it returns, or the
\* TypeError of bind_partial.
capture_arguments(sig, call) ==
  IF BindFails(sig, call) THEN Raised("TypeError")
  ELSE Returned(ApplyDefaults(sig, Bound(sig, call)))

\* What capturing and serializing the arguments of the call does, as the
\* wrapper sees it: "a_unbound", _capture_arguments raises; "a_bad",
\* _serialize_value raises on the snapshot; "a_json", the snapshot is
\* serialized.
CaptureClass(call) ==
  LET snap == capture_arguments(Signature, call)
  IN IF snap.kind = "raise" THEN "a_unbound"
     ELSE IF \E n \in DOMAIN snap.val : snap.val[n] = "x_bad" THEN "a_bad"
     ELSE "a_json"

\* _capture_arguments(search_tool, args, kwargs) called directly.
CallCapture(call) ==
  /\ 1 \in alive /\ stack[1] = <<>>
  /\ stack' = [stack EXCEPT ![1] =
                 <<[kind |-> "fn", pc |-> "done", fn |-> "_capture_arguments",
                    call |-> call, out |-> capture_arguments(Signature, call)]>>]
  /\ UNCHANGED <<alive, cur, mgr, client>>

\* The Authorization header values and header mappings of the requests the
\* context functions are called with.
AuthValues ==
  {NoAuth, Auth(EmptyToken), Auth(NotJwt)}
    \cup {Auth(JWT("Bearer ", <<Opaque, Segment("clean", j), Opaque>>)) : j \in JsonValues}
AllHeaders ==
  {[session |-> s, skey |-> k, auth |-> a] :
     s \in {None, "", "s1"}, k \in SessionKeys, a \in AuthValues}

NextParse ==
  \/ AtTopLevel(1) /\ \E tok \in Tokens : CallParse(1, tok)
  \/ AtTopLevel(1) /\ \E tok \in Tokens : CallExtract(1, tok)
  \/ AtTopLevel(1) /\ \E h \in AllHeaders : CallCreate(1, h)
  \/ AtTopLevel(1) /\ \E h \in AllHeaders : EnterHeaders(1, 1, h)
  \/ AtTopLevel(1) /\ \E async \in BOOLEAN : \E h \in AllHeaders :
       CallFromHeaders(1, async, h, "a_json")
  \/ TargetReturn(1, "r_json")
  \/ Exit(1)
  \/ Return(1)

\* The token and header functions of context.py, called from top-level code
\* of the main branch with every token and header mapping of the model.
SpecParse == Init /\ [][NextParse]_vars

NextConfig ==
  \/ \E cfg \in Configs : BuildConfig(cfg)
  \/ \E cfg \in Configs : CallValidate(cfg)
  \/ \E cfg \in Configs : \E en, refused \in BOOLEAN : ConstructWith(cfg, en, refused)
  \/ \E en \in BOOLEAN : ConstructAgain(en, None, None)
  \/ Reset
  \/ Return(1)

\* Configurations are built and validated, and clients are constructed
\* from them, by the main branch.
SpecConfig == Init /\ [][NextConfig]_vars

NextLife ==
  \/ \E p, b \in Branches : \E inherit \in BOOLEAN : Spawn(p, b, inherit)
  \/ \E b \in Branches : \E m \in Managers : \E c \in OptCtxs : Enter(b, m, c)
  \/ \E b \in Branches : Exit(b)
  \/ \E b \in Branches : Return(b)

\* Scopes, each on a manager object of its own, entered and exited by
\* branches that are created inside and outside scopes; no branch calls
\* set_mcp_context or clear_mcp_context.
SpecLife == Init /\ [][NextLife]_vars

NextCapture ==
  \/ \E en \in BOOLEAN : Construct(en, None, None)
  \/ 1 \in alive /\ stack[1] = <<>> /\ \E call \in CallArgs : CallCapture(call)
  \/ 1 \in alive /\ stack[1] = <<>> /\ \E call \in CallArgs :
       \E async \in BOOLEAN :
         CallTrace(1, async, "absent", "absent", CaptureClass(call))
  \/ 1 \in alive /\ stack[1] = <<>> /\ \E call \in CallArgs :
       \E ci \in BOOLEAN : CallObserve(1, FALSE, ci, FALSE, CaptureClass(call))
  \/ TargetReturn(1, "r_json")
  \/ TargetRaise(1, "ValueError")
  \/ Return(1)

\* The arguments of calls of search_tool are captured, directly and by the
\* wrappers of the decorated function.
SpecCapture == Init /\ [][NextCapture]_vars

NextRace ==
  \/ \E b \in Branches \ {1} : Spawn(1, b, FALSE)
  \/ \E b \in Branches : \E en \in BOOLEAN :
       \E cfg \in {DefaultConfig, HeimdallConfig("key", 1, 100, 1)} :
         ConstructBegin(b, en, cfg)
  \/ \E b \in Branches : NewCheck(b)
  \/ \E b \in Branches : NewAssign(b)
  \/ \E b \in Branches : NewReturn(b)
  \/ \E b \in Branches : InitCheck(b)
  \/ \E b \in Branches : InitSetup(b)
  \/ \E b \in Branches : InitMark(b)
  \/ \E b \in Branches : ConstructEnd(b)
  \/ \E b \in Branches : Return(b)

\* Threads construct HeimdallClient concurrently; no thread calls reset.
SpecRace == Init /\ [][NextRace]_vars

Next ==
  \/ \E p, b \in Branches : \E inherit \in BOOLEAN : Spawn(p, b, inherit)
  \/ \E b \in Branches : \E m \in Managers : \E c \in OptCtxs : Enter(b, m, c)
  \/ \E b \in Branches : \E m \in Managers : ReEnter(b, m)
  \/ \E b \in Branches : Exit(b)
  \/ \E b \in Branches : Return(b)
  \/ \E b \in Branches : \E c \in Ctxs : SetCtx(b, c)
  \/ \E b \in Branches : ClearCtx(b)

Spec == Init /\ [][Next]_vars

\* ------------------------------------------------------------------------
\* The with-blocks of branch b that have just run __exit__.
ExitedScope(b) ==
  /\ stack[b] # <<>>
  /\ Top(b).kind = "scope"
  /\ Top(b).pc = "exited"

\* C1: in a branch, whatever the nesting depth, the exit of a scope whose
\* manager object was entered for that scope only raises nothing and leaves
\* the ambient context at the value get_mcp_context() had just before the
\* matching enter (None included).
C1_ExitRestores ==
  \A b \in Branches :
    (ExitedScope(b) /\ Top(b).own) =>
      /\ Top(b).err = "none"
      /\ get_mcp_context(b) = Top(b).before

\* C1 witness: scope B, nested in scope A of another context, has exited
\* and the ambient context is A's again.
C1_Witness ==
  /\ Len(stack[1]) = 2
  /\ ExitedScope(1) /\ Top(1).own
  /\ stack[1][1].kind = "scope" /\ stack[1][1].own
  /\ mgr[stack[1][1].mgr].ctx \in Ctxs
  /\ mgr[Top(1).mgr].ctx \in Ctxs \ {mgr[stack[1][1].mgr].ctx}
  /\ get_mcp_context(1) = mgr[stack[1][1].mgr].ctx

\* A step of the user code or of a wrapper running in branch b.
BranchOp(b) ==
  \/ \E m \in Managers : \E c \in OptCtxs : Enter(b, m, c)
  \/ \E m \in Managers : ReEnter(b, m)
  \/ Exit(b)
  \/ Return(b)
  \/ \E c \in Ctxs : SetCtx(b, c)
  \/ ClearCtx(b)

\* C2: no operation performed in one branch changes what get_mcp_context()
\* returns in another branch that exists already.
C2_BranchIsolation ==
  [][\A b \in Branches :
       BranchOp(b) =>
         \A c \in alive \ {b} : AmbientOf(cur'[c]) = AmbientOf(cur[c])]_vars

\* C2 witness: two branches inside scopes of their own, each seeing its own
\* context.
C2_Witness ==
  /\ alive = {1, 2}
  /\ stack[1] # <<>> /\ stack[2] # <<>>
  /\ Top(1).kind = "scope" /\ Top(1).pc = "in"
  /\ Top(2).kind = "scope" /\ Top(2).pc = "exited"
  /\ get_mcp_context(1) \in Ctxs
  /\ get_mcp_context(2) \in Ctxs \ {get_mcp_context(1)}

\* ------------------------------------------------------------------------
\* Decorated calls.

\* The innermost frame of branch b is a wrapper call / a finished one.
CallOf(b) == b \in alive /\ stack[b] # <<>> /\ Top(b).kind = "call"
DoneCall(b) == CallOf(b) /\ Top(b).pc = "done"
Decorated(f) == f.wrapper \in {"trace", "observe"}

\* The wrapper of frame f found a client whose tracing is set up.
Configured(f) == f.client.inst /\ f.client.enabled

\* The with-blocks branch b is inside of, and the context of the innermost.
ActiveScopes(b) ==
  {i \in DOMAIN stack[b] : stack[b][i].kind = "scope" /\ stack[b][i].pc = "in"}
Innermost(b) ==
  stack[b][CHOOSE i \in ActiveScopes(b) : \A j \in ActiveScopes(b) : j <= i]
InnermostCtx(b) == mgr[Innermost(b).mgr].ctx

C3_Case(b) ==
  /\ CallOf(b)
  /\ Top(b).wrapper = "trace"
  /\ Configured(Top(b))
  /\ Top(b).sx = "absent" /\ Top(b).ux = "absent"
  /\ ActiveScopes(b) # {}
  /\ InnermostCtx(b).tag = "ctx"
  /\ InnermostCtx(b).session_id # None
  /\ InnermostCtx(b).user_id # None

C4_ScopeReleased ==
  \A b \in Branches :
    (CallOf(b) /\ Top(b).wrapper = "from_headers") =>
      IF Top(b).pc = "done"
      THEN Top(b).exits = 1 /\ get_mcp_context(b) = Top(b).pre
      ELSE Top(b).exits = 0

\* An asynchronous handler called inside a scope and cancelled, whose
\* headers gave another context than the ambient one.
C4_Witness ==
  /\ DoneCall(1)
  /\ Top(1).wrapper = "from_headers"
  /\ Top(1).async
  /\ Top(1).tgt = Raised(Cancelled)
  /\ Top(1).pre.tag = "ctx"
  /\ Top(1).cm.ctx # Top(1).pre
  /\ Top(1).exits = 1

\* C5: with a client configured, whatever the extractors do (absent, value,
\* empty, None, raises) and whatever the ambient context and the client
\* store hold, a trace_mcp_* call invokes the target and gives the caller
\* exactly what the target returned or raised.
C5_Transparent ==
  \A b \in Branches :
    ( /\ DoneCall(b)
      /\ Top(b).wrapper = "trace"
      /\ Configured(Top(b))
      /\ Top(b).sx \in {"absent", "value", "empty", "none", "raises"}
      /\ Top(b).ux \in {"absent", "value", "empty", "none", "raises"} ) =>
      /\ Top(b).invoked = 1
      /\ Top(b).outcome = Top(b).tgt

\* C6: with a client configured, an exception raised by the target of a
\* decorated function reaches the caller as that same exception, also when
\* recording it on the span fails part-way.
C6_SameError ==
  \A b \in Branches :
    ( /\ DoneCall(b)
      /\ Decorated(Top(b))
      /\ Configured(Top(b))
      /\ Top(b).tgt.kind = "raise" ) =>
      Top(b).outcome = Top(b).tgt

\* C7: without a HeimdallClient instance a decorated call invokes the
\* target exactly once with the original arguments, opens no span, invokes
\* no extractor, and returns or raises what the target returns or raises.
C7_NoClientPassThrough ==
  \A b \in Branches :
    (CallOf(b) /\ Decorated(Top(b)) /\ ~Top(b).client.inst) =>
      /\ Top(b).invoked = 1
      /\ Top(b).passed = Top(b).args
      /\ ~Top(b).span.made
      /\ Top(b).exCalls = 0
      /\ Top(b).pc = "done" => Top(b).outcome = Top(b).tgt

\* A finished call without a client whose extractor would have raised and
\* whose target raised an exception that cannot be printed.
C7_Witness ==
  /\ DoneCall(1)
  /\ Top(1).wrapper = "trace"
  /\ ~Top(1).client.inst
  /\ Top(1).sx = "raises"
  /\ Top(1).tgt = Raised("UnprintableError")
  /\ Top(1).outcome = Top(1).tgt

\* C8: with a client whose tracing is disabled a decorated call is a pure
\* pass-through: no identity resolution, and the caller gets what the
\* target returned or raised.
C8_DisabledPassThrough ==
  \A b \in Branches :
    ( /\ CallOf(b)
      /\ Decorated(Top(b))
      /\ Top(b).client.inst
      /\ ~Top(b).client.enabled ) =>
      /\ Top(b).exCalls = 0
      /\ Top(b).pc = "done" => Top(b).outcome = Top(b).tgt

\* C9: with a client configured, when the target returns and serializing or
\* recording its result fails, the caller still gets the result and the
\* span does not report a failure of the target.
C9_ResultSurvives ==
  \A b \in Branches :
    ( /\ DoneCall(b)
      /\ Decorated(Top(b))
      /\ Configured(Top(b))
      /\ Top(b).tgt.kind = "return" ) =>
      /\ Top(b).outcome = Top(b).tgt
      /\ Top(b).span.status_attr # "error"

\* C10: on every exit path of a wrapper that opened a span on a tracer that
\* records (target returns,
\* raises, is cancelled, or a step before the target fails) the duration is
\* recorded and the span is closed exactly once.
C10_DurationAndClose ==
  \A b \in Branches :
    (DoneCall(b) /\ Top(b).span.made /\ Top(b).span.recording) =>
      /\ Top(b).span.duration
      /\ Top(b).span.ended = 1

\* C11: with a client configured, whenever an error raised by the target of
\* a decorated function reaches the caller, the span is marked failed and
\* carries the message and the kind of that error.
C11_ErrorRecorded ==
  \A b \in Branches :
    ( /\ DoneCall(b)
      /\ Decorated(Top(b))
      /\ Configured(Top(b))
      /\ Top(b).tgt.kind = "raise"
      /\ Top(b).tgt.val \in TargetErrors ) =>
      /\ Top(b).span.status = "ERROR"
      /\ Top(b).span.err_msg = Top(b).tgt.val
      /\ Top(b).span.err_type = Top(b).tgt.val

\* The user extractor of the trace_mcp_* call of frame f was called: the
\* wrapper got past the resolution of the session id.
UserExtractorCalled(f) == f.ux # "absent" /\ f.sx # "interrupt"

\* C12: for each of session id and user id, when the supplied extractor
\* returns a non-empty value, that value is the one written on the span,
\* whatever the ambient context and the client-level store hold.
C12_ExtractorValueWins ==
  \A b \in Branches :
    (CallOf(b) /\ Top(b).wrapper = "trace" /\ Configured(Top(b))) =>
      /\ Top(b).sx = "value" => Top(b).span.session_id = ExtractedSession
      /\ (Top(b).ux = "value" /\ UserExtractorCalled(Top(b))) =>
           Top(b).span.user_id = ExtractedUser

\* Both extractors returned a value while the ambient context and the
\* client-level store held other identifiers.
C12_Witness ==
  /\ CallOf(1)
  /\ Top(1).wrapper = "trace"
  /\ Configured(Top(1))
  /\ Top(1).sx = "value" /\ Top(1).ux = "value"
  /\ Top(1).pre.tag = "ctx"
  /\ Top(1).pre.session_id # None /\ Top(1).pre.user_id # None
  /\ Top(1).client.session_id # None /\ Top(1).client.user_id # None
  /\ Top(1).span.session_id = ExtractedSession
  /\ Top(1).span.user_id = ExtractedUser

\* The identifiers of the ambient context at the call of frame f.
PreSession(f) == IF f.pre.tag = "ctx" THEN f.pre.session_id ELSE None
PreUser(f) == IF f.pre.tag = "ctx" THEN f.pre.user_id ELSE None

\* An extractor of the trace_mcp_* call of frame f raised: any exception /
\* one derived from Exception, with no other kind raised in the call.
ExtractorRaised(f) ==
  \/ f.sx \in {"raises", "interrupt"}
  \/ f.ux \in {"raises", "interrupt"} /\ UserExtractorCalled(f)
ExtractorRaisedException(f) ==
  /\ f.sx = "raises" \/ f.ux = "raises"
  /\ f.sx # "interrupt" /\ f.ux # "interrupt"

\* The wrapper of frame f went on as if the extractors that raised had
\* returned nothing: fallback identifiers on the span, target invoked with
\* the original arguments, no extractor error for the caller.
ExtractorErrorSwallowed(f) ==
  /\ f.invoked = 1
  /\ f.passed = f.args
  /\ f.outcome # Raised(ExtractorExit)
  /\ f.sx # "value" =>
       f.span.session_id = (IF PreSession(f) # None THEN PreSession(f)
                            ELSE f.client.session_id)
  /\ f.ux # "value" =>
       f.span.user_id = (IF PreUser(f) # None THEN PreUser(f)
                         ELSE IF f.client.user_id # None THEN f.client.user_id
                         ELSE "anonymous")

NoSessionValue(f) == f.sx \in {"absent", "empty", "none", "raises"}
NoUserValue(f) ==
  f.ux \in {"absent", "empty", "none", "raises"} /\ f.sx # "interrupt"

\* C14: for each of session id and user id, when no extractor value was
\* produced and both the client-level store and the ambient context hold a
\* value, the span gets the store's value; the ambient context's value is
\* used only when the store holds none.
C14_StoreBeforeAmbient ==
  \A b \in Branches :
    (CallOf(b) /\ Top(b).wrapper = "trace" /\ Configured(Top(b))) =>
      /\ (NoSessionValue(Top(b)) /\ Top(b).client.session_id # None) =>
           Top(b).span.session_id = Top(b).client.session_id
      /\ (NoUserValue(Top(b)) /\ Top(b).client.user_id # None) =>
           Top(b).span.user_id = Top(b).client.user_id

\* C14, amended: in that case the span gets the ambient context's value; the
\* store's value is used only when the ambient context holds none.
C14_AmbientBeforeStore ==
  \A b \in Branches :
    (CallOf(b) /\ Top(b).wrapper = "trace" /\ Configured(Top(b))) =>
      /\ (NoSessionValue(Top(b)) /\ PreSession(Top(b)) # None) =>
           Top(b).span.session_id = PreSession(Top(b))
      /\ ( /\ NoSessionValue(Top(b))
           /\ PreSession(Top(b)) = None
           /\ Top(b).client.session_id # None ) =>
           Top(b).span.session_id = Top(b).client.session_id
      /\ (NoUserValue(Top(b)) /\ PreUser(Top(b)) # None) =>
           Top(b).span.user_id = PreUser(Top(b))
      /\ ( /\ NoUserValue(Top(b))
           /\ PreUser(Top(b)) = None
           /\ Top(b).client.user_id # None ) =>
           Top(b).span.user_id = Top(b).client.user_id

\* A call without extractors while the store and the ambient context hold
\* different identifiers: the span carries the ambient ones.
C14_Witness ==
  /\ CallOf(1)
  /\ Top(1).wrapper = "trace"
  /\ Configured(Top(1))
  /\ Top(1).sx = "absent" /\ Top(1).ux = "absent"
  /\ Top(1).client.session_id # None /\ Top(1).client.user_id # None
  /\ PreSession(Top(1)) # None /\ PreUser(Top(1)) # None
  /\ Top(1).span.session_id = PreSession(Top(1))
  /\ Top(1).span.session_id # Top(1).client.session_id
  /\ Top(1).span.user_id = PreUser(Top(1))
  /\ Top(1).span.user_id # Top(1).client.user_id

\* Neither extractor, ambient context nor client-level store yields a
\* session id / a user id for the trace_mcp_* call of frame f.
SessionUnresolved(f) ==
  NoSessionValue(f) /\ PreSession(f) = None /\ f.client.session_id = None
UserUnresolved(f) ==
  NoUserValue(f) /\ PreUser(f) = None /\ f.client.user_id = None

\* C15: when a trace_mcp_* call has a client configured and no source yields
\* a value, the span gets no session-id attribute, its user-id attribute is
\* "anonymous", and the target is invoked normally.
C15_UnresolvedDefaults ==
  \A b \in Branches :
    (CallOf(b) /\ Top(b).wrapper = "trace" /\ Configured(Top(b))) =>
      /\ SessionUnresolved(Top(b)) => Top(b).span.session_id = None
      /\ UserUnresolved(Top(b)) => Top(b).span.user_id = "anonymous"
      /\ (SessionUnresolved(Top(b)) /\ UserUnresolved(Top(b))) =>
           /\ Top(b).invoked = 1
           /\ Top(b).passed = Top(b).args

\* A finished call whose extractors returned nothing, outside any scope and
\* with an empty store: anonymous user, no session id, target's result.
C15_Witness ==
  /\ DoneCall(1)
  /\ Top(1).wrapper = "trace"
  /\ Configured(Top(1))
  /\ Top(1).sx = "empty" /\ Top(1).ux = "none"
  /\ SessionUnresolved(Top(1)) /\ UserUnresolved(Top(1))
  /\ Top(1).span.session_id = None
  /\ Top(1).span.user_id = "anonymous"
  /\ Top(1).outcome = Returned("r_json")

\* ------------------------------------------------------------------------
\* The client.

\* C16: the session-id store and the user-id store of the client hold None
\* or the environment's value after construction, and after any sequence of
\* set_session_id / set_user_id calls the getters return the value of the
\* most recent set, None after set(None).
C16_StoreLastWrite ==
  client.inst =>
    /\ get_session_id = client.set_session
    /\ get_user_id = client.set_user

\* A decorated call read the session id s3 from the store and an empty user
\* id; since then the session id was cleared and a user id was set.
C16_Witness ==
  /\ CallOf(1)
  /\ Top(1).client.inst
  /\ Top(1).client.session_id = "s3" /\ Top(1).client.user_id = None
  /\ client.inst
  /\ get_session_id = None /\ get_user_id = "u3"

\* C17: after any sequence of constructions and resets, every construction
\* since the most recent reset returned the same instance, get_instance()
\* returns that instance, and it returns None exactly when there was no
\* construction since the start or the most recent reset.
C17_Singleton ==
  /\ \A i \in DOMAIN client.made : client.made[i] = get_instance
  /\ get_instance = 0 <=> client.made = <<>>

\* Two constructions returned the instance; a call that began earlier saw a
\* client built three times, so a reset lies in between.
C17_Witness ==
  /\ CallOf(1)
  /\ Len(Top(1).client.made) = 3
  /\ Len(client.made) = 2
  /\ client.made[1] = get_instance /\ client.made[2] = get_instance

\* ------------------------------------------------------------------------
\* Nested and suspended calls.

\* The wrapper calls of branch b, innermost last.
CallsOf(b) == {i \in DOMAIN stack[b] : stack[b][i].kind = "call"}

\* No from_headers wrapper called by the target of frame i of branch b is
\* still inside its own scope.
NoScopeAbove(b, i) ==
  \A j \in CallsOf(b) :
    (j > i /\ stack[b][j].wrapper = "from_headers") => stack[b][j].pc = "done"

\* C18: the wrapper of an asynchronous target is asynchronous; while the
\* target runs, suspended or not, the span opened for the call is open and
\* the ambient context set for the branch is what the branch reads; the span
\* is closed and the scope exited only once the target has completed.
C18_OpenWhileSuspended ==
  \A b \in Branches : \A i \in CallsOf(b) :
    LET f == stack[b][i]
    IN f.async =>
         /\ f.wasync
         /\ f.pc = "target" =>
              /\ f.span.made => f.span.ended = 0
              /\ f.wrapper = "from_headers" =>
                   /\ f.exits = 0
                   /\ NoScopeAbove(b, i) => get_mcp_context(b) = f.cm.ctx
         /\ (f.span.ended > 0 \/ f.exits > 0) => f.tgt # NoOutcome

\* An asynchronous handler under from_headers is suspended inside an
\* asynchronous traced call while another branch has set a context of its
\* own.
C18_Witness ==
  /\ Len(stack[1]) = 2
  /\ stack[1][1].wrapper = "from_headers" /\ stack[1][1].async
  /\ stack[1][1].pc = "target"
  /\ stack[1][2].wrapper = "trace" /\ stack[1][2].async
  /\ stack[1][2].pc = "target" /\ stack[1][2].span.made
  /\ 2 \in alive
  /\ cur[2] = MCPRequestContext("s2", "u2")
  /\ get_mcp_context(1) = stack[1][1].cm.ctx

\* C19: the spans of nested decorated calls of one branch are strictly
\* nested: while a call made by the target of a decorated call is on the
\* stack, running or returned, the outer call's span is open, and once the
\* inner wrapper has returned its span is closed, exactly once.
C19_SpansNested ==
  \A b \in Branches : \A i \in CallsOf(b) :
    LET f == stack[b][i]
    IN f.span.made =>
         /\ f.pc = "done" => f.span.ended = 1
         /\ f.pc # "done" => f.span.ended = 0
         /\ \A j \in CallsOf(b) :
              j < i => (stack[b][j].pc = "target" /\ stack[b][j].span.ended = 0)

\* A decorated call made from the target of a decorated call has returned,
\* its span closed, while the outer target is still running with its span
\* open.
C19_Witness ==
  /\ Len(stack[1]) = 2
  /\ stack[1][1].wrapper = "trace" /\ stack[1][1].span.made
  /\ stack[1][1].pc = "target" /\ stack[1][1].span.ended = 0
  /\ stack[1][2].wrapper = "trace" /\ stack[1][2].span.made
  /\ stack[1][2].pc = "done" /\ stack[1][2].span.ended = 1

\* C20: a from_headers wrapper calls the header supplier once per
\* invocation, its scope holds the context built from the headers that call
\* returned, and that context is what the target reads while it runs.
C20_FreshHeaders ==
  \A b \in Branches : \A i \in CallsOf(b) :
    LET f == stack[b][i]
    IN f.wrapper = "from_headers" =>
         /\ f.hcalls = 1
         /\ f.cm.ctx = create_mcp_context(f.headers)
         /\ (f.pc = "target" /\ NoScopeAbove(b, i)) =>
              get_mcp_context(b) = create_mcp_context(f.headers)

\* A from_headers wrapper is invoked while an earlier invocation with other
\* headers is still running; its target reads the context of the later
\* headers.
C20_Witness ==
  /\ Len(stack[1]) = 2
  /\ stack[1][1].wrapper = "from_headers" /\ stack[1][1].pc = "target"
  /\ stack[1][2].wrapper = "from_headers" /\ stack[1][2].pc = "target"
  /\ stack[1][1].headers = Hdr(None, Auth(NotJwt))
  /\ stack[1][2].headers = Hdr("s1", Auth(JwtU1))
  /\ get_mcp_context(1) = MCPRequestContext("s1", "u1")

\* ------------------------------------------------------------------------
\* Tokens and headers.

\* The call of a context function that has just returned or raised in the
\* main branch.
FnCall(fn) == stack[1] # <<>> /\ Top(1).kind = "fn" /\ Top(1).fn = fn

\* The token is header.payload.signature with a base64url payload that
\* holds a JSON mapping.
PayloadIsMapping(tok) ==
  /\ Len(tok.parts) = 3
  /\ tok.parts[2].b64 = "clean"
  /\ tok.parts[2].json.kind = "mapping"

\* The order in which the claims are to be tried.
ClaimOrder == <<"sub", "user_id", "userId", "uid", "user">>

\* C21: extract_user_id_from_token returns the non-empty string held by the
\* first of sub, user_id, userId, uid, user that holds one, whatever the
\* earlier claims hold (nothing, "", or a value that is no string), and None
\* when none of them holds one.
C21_FirstStringClaim ==
  (FnCall("extract_user_id_from_token") /\ PayloadIsMapping(Top(1).token)) =>
    LET cl == Top(1).token.parts[2].json.claims
        hits == {i \in DOMAIN ClaimOrder : cl[ClaimOrder[i]] = "string"}
    IN /\ Top(1).out.kind = "return"
       /\ hits = {} => Top(1).out.val = None
       /\ \A i \in hits :
            (\A j \in hits : i <= j) => Top(1).out.val = ClaimString[ClaimOrder[i]]

\* The payload has an empty sub, a user_id that is no string, and strings as
\* userId and user: the userId is returned.
C21_Witness ==
  /\ FnCall("extract_user_id_from_token")
  /\ PayloadIsMapping(Top(1).token)
  /\ Top(1).token.parts[2].json.claims =
       [sub |-> "empty", user_id |-> "nonstring", userId |-> "string",
        uid |-> "absent", user |-> "string"]
  /\ Top(1).out = Returned("u3")

\* The token is malformed: once an optional "Bearer " prefix is gone it has
\* not three segments, or its payload is no base64url text, or the payload
\* bytes are no JSON document.  The empty string is one of them.
Malformed(tok) ==
  \/ Len(tok.parts) # 3
  \/ tok.parts[2].b64 # "clean"
  \/ tok.parts[2].json.kind = "invalid"

\* C22: for every malformed token parse_jwt_claims returns the empty mapping
\* and extract_user_id_from_token returns None, and neither raises.
C22_MalformedYieldsEmpty ==
  /\ (FnCall("parse_jwt_claims") /\ Malformed(Top(1).token)) =>
       Top(1).out = Returned(EmptyClaims)
  /\ (FnCall("extract_user_id_from_token") /\ Malformed(Top(1).token)) =>
       Top(1).out = Returned(None)

\* C23: whatever the Authorization header holds, create_mcp_context,
\* mcp_context(headers=...) and a from_headers wrapper do not raise: the
\* token_claims of the context are a mapping, its user_id is None or a
\* non-empty string, and the wrapped target is invoked.
C23_AuthorizationAbsorbed ==
  /\ FnCall("create_mcp_context") =>
       /\ Top(1).out.kind = "return"
       /\ TokenClaims(Top(1).headers).kind = "mapping"
       /\ Top(1).out.val.user_id # ""
  /\ FnCall("mcp_context") => Top(1).out.kind = "return"
  /\ \A i \in CallsOf(1) :
       (stack[1][i].wrapper = "from_headers" /\ stack[1][i].pc = "done") =>
         stack[1][i].invoked = 1

\* C24: on a header mapping that holds only the session header, with any
\* string as its value, create_mcp_context yields the same session_id for
\* every spelling of the header name that differs only in letter case.
C24_SessionKeyCaseInsensitive ==
  (/\ FnCall("create_mcp_context")
   /\ Top(1).headers.session # None
   /\ ~Top(1).headers.auth.present) =>
    /\ Top(1).out.kind = "return"
    /\ \A k \in SessionKeys :
         create_mcp_context([Top(1).headers EXCEPT !.skey = k]).session_id
           = Top(1).out.val.session_id

\* ------------------------------------------------------------------------
\* Configuration.

\* The three limits hold for the settings.
SettingsValid(cfg) ==
  /\ cfg.batch_size >= 1
  /\ cfg.flush_interval_ms >= 100
  /\ cfg.max_queue_size >= cfg.batch_size

\* C25: validate() raises ValueError exactly when batch_size < 1, or
\* flush_interval_ms < 100, or max_queue_size < batch_size, and returns for
\* every other configuration, with or without an API key.
C25_ValidateIff ==
  FnCall("validate") =>
    LET cfg == Top(1).config
        bad == \/ cfg.batch_size < 1
               \/ cfg.flush_interval_ms < 100
               \/ cfg.max_queue_size < cfg.batch_size
    IN Top(1).out = (IF bad THEN Raised("ValueError") ELSE Returned(None))

\* validate() has accepted a configuration without API key whose settings
\* sit on the limits.
C25_Witness ==
  /\ FnCall("validate")
  /\ Top(1).config = HeimdallConfig(None, 1, 100, 1)
  /\ Top(1).out = Returned(None)

\* C26: invalid batch, flush or queue settings are rejected when the
\* configuration is built, and no client is initialized with a configuration
\* that breaks one of the three limits.
C26_InvalidSettingsRejected ==
  /\ FnCall("HeimdallConfig") =>
       (SettingsValid(Top(1).config) \/ Top(1).out.kind = "raise")
  /\ client.inst => SettingsValid(client.config)

\* ------------------------------------------------------------------------
\* Lifetime of the ambient context.

\* C27: whatever scopes were entered and exited and whatever
\* set_mcp_context and clear_mcp_context calls were made, get_mcp_context()
\* in a branch is None or the context of the innermost scope active in that
\* branch.
C27_NoneOrInnermostScope ==
  \A b \in alive :
    \/ get_mcp_context(b) = AmbNone
    \/ ActiveScopes(b) # {} /\ get_mcp_context(b) = InnermostCtx(b)

\* The scopes that are active in some branch.
AllActiveScopes ==
  UNION {{mgr[stack[b][i].mgr].ctx : i \in ActiveScopes(b)} : b \in Branches}

\* C28: a request context is read only while the scope that established it
\* is active: a context that get_mcp_context() returns in any branch, those
\* created inside the scope included, is the context of a scope that has
\* not exited.
C28_ContextEndsWithScope ==
  \A b \in alive :
    get_mcp_context(b).tag = "ctx" => get_mcp_context(b) \in AllActiveScopes

\* ------------------------------------------------------------------------
\* Captured arguments.

\* C29: the snapshot _capture_arguments returns maps each declared
\* parameter to the positional argument at its position, else to the keyword
\* argument of its name, else to its declared default, and holds nothing
\* else; when capturing or serializing the snapshot fails, the wrapper sets
\* no arguments attribute and invokes the target with the arguments it was
\* called with.
C29_SnapshotOfArguments ==
  /\ (FnCall("_capture_arguments") /\ Top(1).out.kind = "return") =>
       LET snap == Top(1).out.val
           call == Top(1).call
       IN /\ DOMAIN snap \subseteq ParamNames
          /\ \A i \in DOMAIN Signature :
               LET n == Signature[i].name
               IN IF i <= Len(call.pos) THEN n \in DOMAIN snap /\ snap[n] = call.pos[i]
                  ELSE IF n \in DOMAIN call.kw
                  THEN n \in DOMAIN snap /\ snap[n] = call.kw[n]
                  ELSE IF Signature[i].default # Required
                  THEN n \in DOMAIN snap /\ snap[n] = Signature[i].default
                  ELSE n \notin DOMAIN snap
  /\ \A i \in CallsOf(1) :
       LET f == stack[1][i]
       IN (f.span.made /\ f.args \in {"a_unbound", "a_bad"}) =>
            /\ f.span.args = "unset"
            /\ f.invoked = 1
            /\ f.passed = f.args

\* search_tool("test") has been captured: query is the positional argument
\* and limit its declared default.
C29_Witness ==
  /\ FnCall("_capture_arguments")
  /\ Top(1).call.pos = <<"test">>
  /\ DOMAIN Top(1).call.kw = {}
  /\ Top(1).out.kind = "return"
  /\ Top(1).out.val["query"] = "test"
  /\ Top(1).out.val["limit"] = "ten"

\* ------------------------------------------------------------------------
\* Concurrent constructions.

\* C30: however the constructions of several threads interleave, tracing is
\* set up at most once between resets and every caller receives the same
\* object; a construction begun after initialization does not run the setup
\* nor change the configuration.
C30_OneSetupOneInstance ==
  /\ client.setups <= 1
  /\ \A i, j \in DOMAIN client.made : client.made[i] = client.made[j]
  /\ \A b \in Branches :
       (Constructing(b) /\ Top(b).after) => ~Top(b).setup

\* ------------------------------------------------------------------------
\* C31: a call of an observe-wrapped function with a client configured never
\* resolves identity and writes no session-id or user-id attribute; with
\* capture_input false the input attribute is never written, with
\* capture_output false the output attribute is never written; and for every
\* setting of the two toggles, once the wrapper has finished, the span was
\* opened, a status and the duration are recorded on it and it is closed.
C31_ObserveContract ==
  \A b \in Branches :
    ( /\ CallOf(b)
      /\ Top(b).wrapper = "observe"
      /\ Configured(Top(b)) ) =>
      /\ Top(b).exCalls = 0
      /\ Top(b).span.session_id = None
      /\ Top(b).span.user_id = None
      /\ ~Top(b).ci => Top(b).span.args = "unset"
      /\ ~Top(b).co => Top(b).span.result = "unset"
      /\ Top(b).span.made
      /\ Top(b).pc = "done" =>
           /\ Top(b).span.status # "UNSET"
           /\ Top(b).span.duration
           /\ Top(b).span.ended = 1

\* ------------------------------------------------------------------------
\* Header mappings as objects: the dict a caller passes to
\* create_mcp_context is stored in the context by reference.

MaxBuilt == 2

\* A dict of headers owned by top-level code of a branch: dict is what the
\* mapping holds now, built the contexts made from it so far.
MappingFrame(h) == [kind |-> "mapping", pc |-> "live", dict |-> h, built |-> <<>>]

HasMapping(b) ==
  b \in alive /\ stack[b] # <<>> /\ Top(b).kind = "mapping" /\ Top(b).pc = "live"

\* What the fields of an MCPRequestContext built from mapping h hold: three
\* values and, for headers, the mapping object itself.
ContextFields(h) ==
  [session_id |-> create_mcp_context(h).session_id,
   user_id |-> create_mcp_context(h).user_id,
   headers |-> "the_mapping",
   token_claims |-> TokenClaims(h)]

\* The fields of context object o as a reader sees them while the mapping
\* it was built from holds h.
ReadFields(o, h) ==
  [session_id |-> o.session_id, user_id |-> o.user_id,
   headers |-> IF o.headers = "the_mapping" THEN h ELSE o.headers,
   token_claims |-> o.token_claims]

\* headers = {...}
NewMapping(b, h) ==
  /\ AtTopLevel(b)
  /\ stack' = [stack EXCEPT ![b] = <<MappingFrame(h)>>]
  /\ UNCHANGED <<alive, cur, mgr, client>>

\* ctx = create_mcp_context(headers) returns; seen is what the fields of the
\* new context read at that moment.
BuildContext(b) ==
  /\ HasMapping(b)
  /\ Len(Top(b).built) < MaxBuilt
  /\ CreateRaises(Top(b).dict) = "none"
  /\ LET o == ContextFields(Top(b).dict)
     IN stack' = [stack EXCEPT ![b][Len(stack[b])].built =
                    Append(@, [obj |-> o, seen |-> ReadFields(o, Top(b).dict)])]
  /\ UNCHANGED <<alive, cur, mgr, client>>

\* The caller changes its mapping in place (headers[key] = value, del
\* headers[key]) so that it holds h.
MutateMapping(b, h) ==
  /\ HasMapping(b)
  /\ h # Top(b).dict
  /\ stack' = [stack EXCEPT ![b][Len(stack[b])].dict = h]
  /\ UNCHANGED <<alive, cur, mgr, client>>

\* The caller is done with the mapping and its contexts.
DropMapping(b) ==
  /\ HasMapping(b)
  /\ stack' = [stack EXCEPT ![b][Len(stack[b])].pc = "done"]
  /\ UNCHANGED <<alive, cur, mgr, client>>

NextRequest ==
  \/ \E h \in Headers : NewMapping(1, h)
  \/ BuildContext(1)
  \/ \E h \in Headers : MutateMapping(1, h)
  \/ DropMapping(1)
  \/ Return(1)

\* Contexts built from one header mapping that its owner keeps changing
\* between requests.
SpecRequest == Init /\ [][NextRequest]_vars

\* C32: a context built by create_mcp_context never changes afterwards:
\* whatever the caller does to the mapping it passed in, and whatever
\* contexts are built from it later, each of session_id, user_id, headers
\* and token_claims reads as it did when the context was returned.
C32_ContextImmutable ==
  \A b \in Branches :
    HasMapping(b) =>
      \A i \in DOMAIN Top(b).built :
        ReadFields(Top(b).built[i].obj, Top(b).dict) = Top(b).built[i].seen

\* ------------------------------------------------------------------------
\* Direct writes inside scopes.

\* The innermost with-block of branch b is about to exit while the ambient
\* context is not the one the block established: it was set or cleared
\* inside the block.
ChangedInside(b) ==
  /\ b \in alive
  /\ stack[b] # <<>>
  /\ Top(b).kind = "scope" /\ Top(b).pc = "in"
  /\ get_mcp_context(b) # AmbientOf(mgr[Top(b).mgr].ctx)

\* C33: what set_mcp_context or clear_mcp_context wrote inside an active
\* scope does not outlive the scope: the exit of the scope leaves the
\* ambient context at the value it had just before the scope was entered.
C33_SetInsideEndsWithScope ==
  [][\A b \in Branches :
       (ChangedInside(b) /\ Exit(b)) =>
         get_mcp_context(b)' = Top(b).before]_vars

\* ------------------------------------------------------------------------
\* One manager object used for an outer and an inner scope.

\* The with-block branch b has just left is on a manager object that the
\* branch entered twice: it is the inner block (an enclosing block is on the
\* same object) or the outer one (the object was entered again inside it).
ExitedReEntered(b) ==
  /\ ExitedScope(b)
  /\ \/ ~Top(b).own
     \/ \E i \in 1..(Len(stack[b]) - 1) :
          stack[b][i].kind = "scope" /\ stack[b][i].mgr = Top(b).mgr

\* C34: when one branch enters a manager object again while it is entered,
\* each of the two exits raises nothing and leaves the ambient context at
\* the value it had before the matching enter, so that after the outer exit
\* it is the value before the outer enter.
C34_ReEntryRestores ==
  (alive = {1} /\ ExitedReEntered(1)) =>
    /\ Top(1).err = "none"
    /\ get_mcp_context(1) = Top(1).before

\* ------------------------------------------------------------------------
\* Constructions that raise.

\* client = HeimdallClient(config=cfg) called from top-level code of the
\* main branch while no initialized instance exists (cfg.enabled = en):
\* the frame records what the call returned or raised.  __new__ has stored
\* the object in _instance before __init__ runs; when _setup_tracing raises
\* (refused), __init__ is left before _initialized is set.
ConstructCall(cfg, en, refused) ==
  /\ AtTopLevel(1)
  /\ ~client.inst
  /\ refused => MayRefuse(cfg, en)
  /\ client' = IF refused
               THEN [client EXCEPT !.obj = New(client.obj), !.config = cfg]
               ELSE [InitClient(New(client.obj), en, None, None)
                       EXCEPT !.config = cfg]
  /\ stack' = [stack EXCEPT ![1] =
                 <<[kind |-> "fn", pc |-> "done", fn |-> "HeimdallClient",
                    config |-> cfg,
                    out |-> IF refused THEN Raised("ValueError")
                            ELSE Returned(New(client.obj))]>>]
  /\ UNCHANGED <<alive, cur, mgr>>

NextAtomic ==
  \/ \E cfg \in Configs : \E en, refused \in BOOLEAN : ConstructCall(cfg, en, refused)
  \/ AtTopLevel(1) /\ Reset
  \/ CallTrace(1, FALSE, "absent", "absent", "a_json")
  \/ \E ci, co \in BOOLEAN : CallObserve(1, FALSE, ci, co, "a_json")
  \/ TargetReturn(1, "r_json")
  \/ Return(1)

\* Clients are constructed, some constructions raise, and decorated
\* functions are called in between.
SpecAtomic == Init /\ [][NextAtomic]_vars

\* C35: construction is failure-atomic.  After a HeimdallClient(...) call
\* that raised, get_instance() returns None; while no construction has
\* completed, a decorated call takes the pass-through path and opens no
\* span; and a construction that returns has stored its configuration and
\* marked the object initialized.
C35_FailureAtomic ==
  /\ (FnCall("HeimdallClient") /\ Top(1).out.kind = "raise") => get_instance = 0
  /\ (CallOf(1) /\ ~Top(1).client.inst) => ~Top(1).span.made
  /\ (FnCall("HeimdallClient") /\ Top(1).out.kind = "return") =>
       /\ client.inst
       /\ client.config = Top(1).config
       /\ Top(1).out.val \in client.initialized

\* ------------------------------------------------------------------------
\* The target inside its span.

\* C36: in a call of a decorated function the target is invoked at most
\* once; when the wrapper opened a span, the target is running only while
\* the span is open, it was not invoked unless the span had been opened, the
\* span is closed only once the wrapper is finished, and a target that has
\* returned or raised was invoked exactly once (no retry).
C36_TargetOnceInsideSpan ==
  \A b \in Branches : \A i \in CallsOf(b) :
    LET f == stack[b][i]
    IN Decorated(f) =>
         /\ f.invoked <= 1
         /\ f.pc = "target" => f.invoked = 1
         /\ f.tgt # NoOutcome => f.invoked = 1
         /\ (f.span.made /\ f.pc = "target") => f.span.ended = 0
         /\ (f.client.obj # 0 /\ f.invoked > 0) => f.span.made
         /\ f.span.ended > 0 => f.pc = "done"

\* A traced call whose target raised has finished: the target was invoked
\* once and the span, opened before, is closed.
C36_Witness ==
  /\ DoneCall(1)
  /\ Decorated(Top(1))
  /\ Top(1).span.made /\ Top(1).span.ended = 1
  /\ Top(1).tgt = Raised("ValueError")
  /\ Top(1).invoked = 1

\* ------------------------------------------------------------------------
\* Status marks.

\* C37: a span written by a decorator never carries both status marks: the
\* successful mark is written only in a call that goes on to return the
\* target's result to the caller, and the failed mark only in a call that
\* raises to the caller.
C37_OkXorError ==
  \A b \in Branches : \A i \in CallsOf(b) :
    LET f == stack[b][i]
    IN (Decorated(f) /\ f.span.made) =>
         /\ ~({"ok", "error"} \subseteq f.span.marks)
         /\ "ok" \in f.span.marks =>
              /\ f.pc = "done"
              /\ f.tgt.kind = "return"
              /\ f.outcome = f.tgt
         /\ "error" \in f.span.marks =>
              /\ f.pc = "done"
              /\ f.outcome.kind = "raise"

\* A traced call whose target returned a value that cannot be serialized
\* has finished: the span carries the failed mark alone and the caller got
\* the serialization error.
C37_Witness ==
  /\ DoneCall(1)
  /\ Top(1).wrapper = "trace"
  /\ Top(1).span.made
  /\ Top(1).tgt = Returned("r_bad")
  /\ Top(1).span.marks = {"error"}
  /\ Top(1).outcome = Raised(StrError)

\* ------------------------------------------------------------------------
\* A header supplier that raises.

NextSupplier ==
  \/ \E c \in Ctxs : AtTopLevel(1) /\ SetCtx(1, c)
  \/ AtTopLevel(1) /\ ClearCtx(1)
  \/ Return(1)
  \/ \E async \in BOOLEAN : \E h \in Headers : CallFromHeaders(1, async, h, "a_json")
  \/ \E async \in BOOLEAN : CallFromHeadersRaising(1, async, "a_json")
  \/ TargetReturn(1, "r_json")
  \/ TargetRaise(1, "ValueError")

\* Handlers wrapped by mcp_context.from_headers whose header supplier
\* returns on some calls and raises on others, called by the main branch
\* under every ambient context and from inside one another.
SpecSupplier == Init /\ [][NextSupplier]_vars

\* C38: when the header supplier of a from_headers wrapper raises, the
\* caller of the wrapper gets that error, the target is not invoked, no
\* scope is entered or exited, and the ambient context is as it was before
\* the call.
C38_SupplierErrorPropagates ==
  \A b \in Branches : \A i \in CallsOf(b) :
    LET f == stack[b][i]
    IN (f.wrapper = "from_headers" /\ f.getter = "raises") =>
         /\ f.pc = "done"
         /\ f.outcome = Raised(GetterError)
         /\ f.invoked = 0
         /\ f.tgt = NoOutcome
         /\ ~f.cm.made
         /\ f.exits = 0
         /\ i = Len(stack[b]) => get_mcp_context(b) = f.pre

\* Inside the target of a from_headers handler, whose headers established
\* a context, a second wrapped handler was called and its supplier raised:
\* the ambient context is still the one of the enclosing handler.
C38_Witness ==
  /\ Len(stack[1]) = 2
  /\ stack[1][1].kind = "call" /\ stack[1][1].wrapper = "from_headers"
  /\ stack[1][1].pc = "target"
  /\ stack[1][1].cm.ctx.session_id = "s1"
  /\ Top(1).kind = "call" /\ Top(1).wrapper = "from_headers"
  /\ Top(1).getter = "raises"
  /\ Top(1).outcome = Raised(GetterError)
  /\ get_mcp_context(1) = stack[1][1].cm.ctx

====
